---- MODULE Spec2Model ----
(***************************************************************************)
(* Verification model of the SO(n) geodesic kernel of tukey-turkey-triumph *)
(* (math4d.js, geodesic.js, geodesic-wasm.js and the wasm-bindgen glue)    *)
(* and of the games built on it (rotation-challenge.js, game.js).          *)
(*                                                                         *)
(* JavaScript arrays are modelled as functions over 0..len-1 so that the   *)
(* source's zero-based indices are kept.                                   *)
(***************************************************************************)
EXTENDS Integers, Sequences, FiniteSets, TLC

(***************************************************************************)
(* Bounds of the model.                                                    *)
(***************************************************************************)
\* wire-format specification: largest dimension and largest entry drawn
MaxN == 2
MaxVal == 2
\* wrapper specification: largest dimension of an argument matrix, number of
\* initWasm calls that can be in flight together, largest parameter t drawn
MaxDim == 2
MaxInitCalls == 2
MaxT == 1
\* matrix-operation specification: largest dimension of an input matrix and
\* number of operations applied in a row
OpsMaxDim == 2
MaxOps == 3
\* logarithm specification: largest deviation of an input entry from the
\* identity (in units of 1 / One), and the iteration caps of the kernel
MaxDev == 2
MaxSqrtIter == 2
MaxSchurIter == 2
\* geodesic specification: largest entry of a generator K drawn
MaxGen == 1
\* challenge specification: largest angle between an orientation and the
\* identity, in quarters of a unit of distance
MaxAngle == 5
\* page specification: challenges constructed, and frames counted of each
MaxChallenges == 3
MaxFrames == 2
\* game specification: diagonal moves made beyond the wall of the grid
MaxOutside == 2

VARIABLES
  \* ---- flat wire format (geodesic-wasm.js matrixToFlat / flatToMatrix)
  fMatrix,     \* the 2D array handed to matrixToFlat
  fFlat,       \* the Float64Array matrixToFlat returned
  fBack,       \* the 2D array flatToMatrix returned
  fpc          \* "matrix", "flat" (fFlat is set) or "back" (fBack is set too)

flatVars == <<fMatrix, fFlat, fBack, fpc>>

VARIABLES
  \* ---- geodesic-wasm.js / geodesic.js module state and the wasm-bindgen glue
  wasmModule,      \* geodesic-wasm.js `let wasmModule`: "null" or "wasm"
  wasmInitialized, \* geodesic-wasm.js `let wasmInitialized`
  glueWasm,        \* wasm_logm.js `let wasm`: "undefined" or "exports"
  hasLogm,         \* typeof math.logm === 'function' in the mathjs build in use
  initPc,          \* where each initWasm call stands
  lastCall         \* the kernel call that completed last, with its outcome

moduleState == <<wasmModule, wasmInitialized, glueWasm>>
wasmVars == <<wasmModule, wasmInitialized, glueWasm, hasLogm, initPc, lastCall>>

VARIABLES
  \* ---- the JavaScript heap and the module's linear memory, for math4d.js
  \* ---- and the wasm-bindgen glue
  heap,        \* the arrays allocated so far: heap[id] = [kind, elems]
  wmem,        \* wasm.memory.buffer seen as a Float64Array
  lastOp,      \* the operation that completed last: operands, result, throw
  opCount      \* operations applied so far

opsVars == <<heap, wmem, lastOp, opCount>>

VARIABLES
  \* ---- one matrix-logarithm call, step by step
  logImpl,     \* the function called: logUnitary, matrixLogN, matrix_logm, ...
  logU,        \* its argument, entries as numerators over One
  logPc,       \* where the call stands
  logK,        \* the counter of the loop that is running
  logPower,    \* matrixLogN's power (numerators over One^k)
  logResult,   \* the matrix computed so far (numerators over Den)
  logTried,    \* the methods the kernel has started, in order
  logFailed,   \* the methods whose computation failed
  logNeed,     \* what the argument demands: iterations to converge, eig outcome
  logCount,    \* iterations and decompositions run by this call
  logOutcome   \* what the call gave its caller

logVars == <<logImpl, logU, logPc, logK, logPower, logResult, logTried,
             logFailed, logNeed, logCount, logOutcome>>

VARIABLES
  \* ---- one call of the distance / interpolation / derivative functions
  geoCall      \* the function called, its arguments and what it returned

geoVars == <<geoCall>>

VARIABLES
  \* ---- one RotationChallenge object (rotation-challenge.js)
  playerOrientation,         \* this.playerOrientation
  targetRotation,            \* this.targetRotation
  currentDistance,           \* this.currentDistance
  bestDistance,              \* this.bestDistance
  hasWon,                    \* this.hasWon
  autoLockEnabled,           \* this.autoLockEnabled
  autoLockThreshold,         \* this.autoLockThreshold
  hasTriggeredAutoLock,      \* this.hasTriggeredAutoLock
  lastDistanceAboveReset,    \* this.lastDistanceAboveReset
  isAnimatingHalfway,        \* this.isAnimatingHalfway
  halfwayProgress,           \* this.halfwayProgress, in ticks over halfwayDuration
  halfwayStartOrientation,   \* this.halfwayStartOrientation
  halfwayTargetOrientation,  \* this.halfwayTargetOrientation
  \* ---- what an observer of the object has seen
  chalEvent,                 \* the method that ran last and what it called
  animElapsed,               \* time steps added up since the animation in progress started
  cycleOpen,                 \* a distance above 1.0 was computed, or setAutoLockEnabled
                             \* called, since auto-lock last started
  onWinCalls                 \* calls of onWin since the last newChallenge

animVars == <<isAnimatingHalfway, halfwayProgress, halfwayStartOrientation,
              halfwayTargetOrientation>>
autoLockVars == <<autoLockEnabled, autoLockThreshold, hasTriggeredAutoLock,
                  lastDistanceAboveReset>>
scoreVars == <<currentDistance, bestDistance, hasWon>>
chalVars == <<playerOrientation, targetRotation, scoreVars, autoLockVars, animVars,
              chalEvent, animElapsed, cycleOpen, onWinCalls>>

VARIABLES
  currentDimensions,  \* the page: the dimension of the challenge on show
  challenges,         \* the page: the challenges constructed so far, the last
                      \* one being the page's variable challenge; of each, its
                      \* running flag, the animation frames requested for it
                      \* and not yet run, and the frames it has updated and
                      \* rendered (counted up to MaxFrames)
  loopEvent           \* the last step of the page: its name, the challenge,
                      \* whether it updated and rendered, whether it requested
                      \* an animation frame

loopVars == <<currentDimensions, challenges, loopEvent>>

VARIABLES
  position,           \* Game: player.position, in steps of 0.05
  orientation,        \* Game: player.orientation, 1 for the identity and -1
                      \* for the half turn of the plane of the two axes
  shipType,           \* Game: 'aerilou' or 'druuge'
  isMovingForward,    \* Game: the forward key is held
  playerVelocity,     \* Game: the component of playerVelocity along the
                      \* forward axis, in steps per tick
  pardonCheck         \* where the player was at the last checkPardonRadius:
                      \* "inside" the grid, "outside" it, or "none" yet

gameVars == <<position, orientation, shipType, isMovingForward, playerVelocity,
              pardonCheck>>

appVars == <<chalVars, loopVars, gameVars>>

vars == <<flatVars, wasmVars, opsVars, logVars, geoVars, appVars>>

\* what the actions of one specification leave alone
notFlat == <<wasmVars, opsVars, logVars, geoVars, appVars>>
notWasm == <<flatVars, opsVars, logVars, geoVars, appVars>>
notOps == <<flatVars, wasmVars, logVars, geoVars, appVars>>
notLog == <<flatVars, wasmVars, opsVars, geoVars, appVars>>
notGeo == <<flatVars, wasmVars, opsVars, logVars, appVars>>
kernelVars == <<flatVars, wasmVars, opsVars, logVars, geoVars>>
notChal == <<kernelVars, loopVars, gameVars>>
notLoop == <<kernelVars, chalVars, gameVars>>
notGame == <<kernelVars, chalVars, loopVars>>

(***************************************************************************)
(* JavaScript arrays.                                                      *)
(***************************************************************************)
\* a.length of an array modelled as a function over 0..len-1
Length(a) == Cardinality(DOMAIN a)

\* the square n-by-n arrays of arrays with entries in S
SquareMatrices(n, S) == [0..(n - 1) -> [0..(n - 1) -> S]]

InputMatrices == UNION {SquareMatrices(n, 0..MaxVal) : n \in 1..MaxN}

\* arr.push(x)
Push(arr, x) == [k \in 0..Length(arr) |-> IF k < Length(arr) THEN arr[k] ELSE x]

EmptyArray == [k \in {} |-> 0]

(***************************************************************************)
(* geodesic-wasm.js: matrixToFlat and flatToMatrix.                        *)
(***************************************************************************)
\* the two nested for loops of matrixToFlat, one assignment flat[idx++] per step
RECURSIVE matrixToFlatLoop(_, _, _, _, _, _)
matrixToFlatLoop(matrix, n, i, j, idx, flat) ==
  IF i >= n THEN flat
  ELSE IF j >= n THEN matrixToFlatLoop(matrix, n, i + 1, 0, idx, flat)
  ELSE matrixToFlatLoop(matrix, n, i, j + 1, idx + 1,
                        [flat EXCEPT ![idx] = matrix[i][j]])

\* the same loops reading matrix[j][i]: a column-major writer
RECURSIVE matrixToFlatColumnMajorLoop(_, _, _, _, _, _)
matrixToFlatColumnMajorLoop(matrix, n, i, j, idx, flat) ==
  IF i >= n THEN flat
  ELSE IF j >= n THEN matrixToFlatColumnMajorLoop(matrix, n, i + 1, 0, idx, flat)
  ELSE matrixToFlatColumnMajorLoop(matrix, n, i, j + 1, idx + 1,
                                   [flat EXCEPT ![idx] = matrix[j][i]])

matrixToFlatColumnMajor(matrix) ==
  LET n == Length(matrix)
  IN  matrixToFlatColumnMajorLoop(matrix, n, 0, 0, 0, [k \in 0..(n * n - 1) |-> 0])

\* function matrixToFlat(matrix): n = matrix.length, a zeroed Float64Array(n*n)
matrixToFlat(matrix) ==
  LET n == Length(matrix)
  IN  matrixToFlatLoop(matrix, n, 0, 0, 0, [k \in 0..(n * n - 1) |-> 0])

\* the inner loop of flatToMatrix: row.push(flat[idx++]) for j < n
RECURSIVE flatToMatrixRow(_, _, _, _, _)
flatToMatrixRow(flat, n, j, idx, row) ==
  IF j >= n THEN row
  ELSE flatToMatrixRow(flat, n, j + 1, idx + 1, Push(row, flat[idx]))

\* the outer loop of flatToMatrix: matrix.push(row) for i < n; idx runs on
RECURSIVE flatToMatrixLoop(_, _, _, _, _)
flatToMatrixLoop(flat, n, i, idx, matrix) ==
  IF i >= n THEN matrix
  ELSE flatToMatrixLoop(flat, n, i + 1, idx + n,
                        Push(matrix, flatToMatrixRow(flat, n, 0, idx, EmptyArray)))

\* function flatToMatrix(flat, n)
flatToMatrix(flat, n) == flatToMatrixLoop(flat, n, 0, 0, EmptyArray)

(***************************************************************************)
(* math4d.js constructors used to draw argument matrices.                  *)
(***************************************************************************)
\* export function identityNxN(n)
identityNxN(n) == [i \in 0..(n - 1) |-> [j \in 0..(n - 1) |-> IF i = j THEN 1 ELSE 0]]

\* the orthogonal 0/1 matrices of dimension n: the identity with its rows permuted
PermutationMatrices(n) ==
  {[i \in 0..(n - 1) |-> identityNxN(n)[p[i]]] : p \in Permutations(0..(n - 1))}

ArgMatrices == UNION {PermutationMatrices(n) : n \in 1..MaxDim}

(***************************************************************************)
(* Outcomes of a call.  A value that the kernel computes in floating point *)
(* is kept as a term: the name of the function that computed it, its       *)
(* arguments, and the index k of the entry.                                *)
(***************************************************************************)
Term(fn, a, b, c, t, n, k) ==
  [fn |-> fn, a |-> a, b |-> b, c |-> c, t |-> t, n |-> n, k |-> k]

\* how a term names a matrix argument: its entries listed row by row
Entries(m) ==
  LET n == Length(m) IN [k \in 0..(n * n - 1) |-> m[k \div n][k % n]]

NoValue == [type |-> "undefined", rows |-> EmptyArray]
NumberValue(term) == [type |-> "number", rows |-> (0 :> (0 :> term))]
Float64ArrayValue(flat) == [type |-> "Float64Array", rows |-> (0 :> flat)]
ArrayValue(matrix) == [type |-> "Array", rows |-> matrix]

Throw(e) == [kind |-> "throw", error |-> e, via |-> "none", value |-> NoValue]
Return(via, v) == [kind |-> "return", error |-> "", via |-> via, value |-> v]
NoOutcome == [kind |-> "none", error |-> "none", via |-> "none", value |-> NoValue]

NotInitializedError == "WASM module not initialized. Call initWasm() first."
NoLogmError == "Matrix logarithm (logm) not available in standard mathjs."
NotAFunctionError == "TypeError: math.logm is not a function"
DimensionError == "dimension mismatch"

(***************************************************************************)
(* The exports of the compiled module (wasm_logm.js over the Rust kernel). *)
(* The Rust source is not part of src/: the exports follow the contract of *)
(* the specification (flat row-major n*n input plus n, an error on a       *)
(* dimension mismatch, a flat n*n result or a number).                     *)
(***************************************************************************)
FlatFits(flat, n) == Length(flat) = n * n

ResultFlat(fn, a, b, t, n) ==
  [k \in 0..(n * n - 1) |-> Term(fn, a, b, EmptyArray, t, n, k)]

geodesic_distance(r, t, n) ==
  IF FlatFits(r, n) /\ FlatFits(t, n)
  THEN Return("wasm", NumberValue(Term("geodesic_distance", r, t, EmptyArray, 0, n, 0)))
  ELSE Throw(DimensionError)

geodesic_interp(a, b, t, n) ==
  IF FlatFits(a, n) /\ FlatFits(b, n)
  THEN Return("wasm", Float64ArrayValue(ResultFlat("geodesic_interp", a, b, t, n)))
  ELSE Throw(DimensionError)

matrix_logm(matrix, n) ==
  IF FlatFits(matrix, n)
  THEN Return("wasm", Float64ArrayValue(ResultFlat("matrix_logm", matrix, EmptyArray, 0, n)))
  ELSE Throw(DimensionError)

matrix_expm(matrix, n) ==
  IF FlatFits(matrix, n)
  THEN Return("wasm", Float64ArrayValue(ResultFlat("matrix_expm", matrix, EmptyArray, 0, n)))
  ELSE Throw(DimensionError)

(***************************************************************************)
(* geodesic-wasm.js: the wrappers around the exports.                      *)
(***************************************************************************)
\* export function isWasmAvailable()
isWasmAvailable == wasmInitialized

\* flatToMatrix applied to the Float64Array an export returned
FlatResultToMatrix(outcome, n) ==
  IF outcome.kind = "return"
  THEN Return(outcome.via, ArrayValue(flatToMatrix(outcome.value.rows[0], n)))
  ELSE outcome

\* export function geodesicDistanceWasm(R, T)
geodesicDistanceWasm(R, T) ==
  IF ~wasmInitialized THEN Throw(NotInitializedError)
  ELSE LET n == Length(R)
           R_flat == matrixToFlat(R)
           T_flat == matrixToFlat(T)
       IN  geodesic_distance(R_flat, T_flat, n)

\* export function geodesicInterpWasm(A, B, t)
geodesicInterpWasm(A, B, t) ==
  IF ~wasmInitialized THEN Throw(NotInitializedError)
  ELSE LET n == Length(A)
           A_flat == matrixToFlat(A)
           B_flat == matrixToFlat(B)
       IN  FlatResultToMatrix(geodesic_interp(A_flat, B_flat, t, n), n)

\* export function matrixLogmWasm(M): the export's Float64Array is returned as is
matrixLogmWasm(M) ==
  IF ~wasmInitialized THEN Throw(NotInitializedError)
  ELSE LET n == Length(M)
           M_flat == matrixToFlat(M)
       IN  matrix_logm(M_flat, n)

\* matrixExpmWasm without its test of wasmInitialized
matrixExpmWasmUnguarded(M) ==
  LET n == Length(M)
      M_flat == matrixToFlat(M)
  IN  FlatResultToMatrix(matrix_expm(M_flat, n), n)

\* export function matrixExpmWasm(M)
matrixExpmWasm(M) ==
  IF ~wasmInitialized THEN Throw(NotInitializedError)
  ELSE LET n == Length(M)
           M_flat == matrixToFlat(M)
       IN  FlatResultToMatrix(matrix_expm(M_flat, n), n)

(***************************************************************************)
(* geodesic.js: the mathjs path and the array wrappers that dispatch.      *)
(* mathjs is a library: math.multiply throws on operands of different      *)
(* sizes, and math.logm exists only in the fork (hasLogm).                 *)
(***************************************************************************)
\* export function geodesicDistance(R, T): ctranspose, multiply, logUnitary, norm
geodesicDistance(R, T) ==
  IF Length(R) # Length(T) THEN Throw(DimensionError)
  ELSE IF ~hasLogm THEN Throw(NoLogmError)
  ELSE Return("mathjs",
              NumberValue(Term("geodesicDistance", Entries(R), Entries(T), EmptyArray,
                               0, Length(R), 0)))

\* export function geodesicInterp(A, B, t): math.logm is called unguarded
geodesicInterp(A, B, t) ==
  IF Length(A) # Length(B) THEN Throw(DimensionError)
  ELSE IF ~hasLogm THEN Throw(NotAFunctionError)
  ELSE LET n == Length(A)
       IN  Return("mathjs",
                  ArrayValue([i \in 0..(n - 1) |-> [j \in 0..(n - 1) |->
                     Term("geodesicInterp", Entries(A), Entries(B), EmptyArray,
                          t, n, i * n + j)]]))

\* export function dGeodesicAtZero(R, T, K, h): H(R,K,h), H(R,K,-h), two distances
dGeodesicAtZero(R, T, K) ==
  IF Length(R) # Length(K) \/ Length(R) # Length(T) THEN Throw(DimensionError)
  ELSE IF ~hasLogm THEN Throw(NoLogmError)
  ELSE Return("mathjs",
              NumberValue(Term("dGeodesicAtZero", Entries(R), Entries(T), Entries(K),
                               0, Length(R), 0)))

\* the dispatch on isWasmAvailable() reading the wrong flag (the glue's `wasm`)
geodesicDistanceArrayProbingGlue(R, T) ==
  IF glueWasm # "undefined" THEN geodesicDistanceWasm(R, T)
  ELSE geodesicDistance(R, T)

\* export function geodesicDistanceArray(R, T)
geodesicDistanceArray(R, T) ==
  IF isWasmAvailable THEN geodesicDistanceWasm(R, T)
  ELSE geodesicDistance(R, T)

\* export function geodesicInterpArray(A, B, t)
geodesicInterpArray(A, B, t) ==
  IF isWasmAvailable THEN geodesicInterpWasm(A, B, t)
  ELSE geodesicInterp(A, B, t)

\* export function dGeodesicAtZeroArray(R, T, K, h): always the mathjs path
dGeodesicAtZeroArray(R, T, K) == dGeodesicAtZero(R, T, K)

(***************************************************************************)
(* The JavaScript heap.  Every array is an object with an identity: a      *)
(* matrix is an outer array (kind "Matrix") whose elements are the ids of  *)
(* its rows (kind "Array"); a Float64Array owns its buffer (kind           *)
(* "Float64Array") or is a view of the module's linear memory (kind        *)
(* "View", its elements being the addresses it covers).                    *)
(***************************************************************************)
Obj(kind, elems) == [kind |-> kind, elems |-> elems]

\* x + undefined, x * undefined
NaN == -1000
Plus(x, y) == IF x = NaN \/ y = NaN THEN NaN ELSE x + y
Times(x, y) == IF x = NaN \/ y = NaN THEN NaN ELSE x * y

\* new storage: the id of the object allocated next
NewId(h) == Len(h) + 1
Alloc(h, kind, elems) == Append(h, Obj(kind, elems))

\* m[i] is undefined
NoRow(h, m, i) == i \notin DOMAIN h[m].elems

\* m[i][j], undefined (NaN in arithmetic) past the end of the row
Read(h, m, i, j) ==
  LET row == h[h[m].elems[i]].elems
  IN  IF j \in DOMAIN row THEN row[j] ELSE NaN

\* arr[j] = v on the object arr (a store past the end extends the array by one)
Store(h, arr, j, v) ==
  IF j \in DOMAIN h[arr].elems
  THEN [h EXCEPT ![arr].elems[j] = v]
  ELSE [h EXCEPT ![arr].elems = Push(h[arr].elems, v)]

\* m[i][j] = v
Write(h, m, i, j, v) == Store(h, h[m].elems[i], j, v)

\* the result of a function's body: the heap it leaves, what it returns,
\* and whether it threw (a TypeError on reading a property of undefined)
Done(h, ref) == [heap |-> h, ref |-> ref, threw |-> FALSE]
Thrown(h) == [heap |-> h, ref |-> 0, threw |-> TRUE]

\* export function identityNxN(n), allocating: mat = [], then each row
RECURSIVE AllocIdentityRows(_, _, _, _)
AllocIdentityRows(h, mat, n, i) ==
  IF i >= n THEN h
  ELSE LET row == NewId(h)
           h1 == Alloc(h, "Array", [j \in 0..(n - 1) |-> IF i = j THEN 1 ELSE 0])
       IN  AllocIdentityRows(Store(h1, mat, i, row), mat, n, i + 1)

AllocIdentity(h, n) ==
  LET mat == NewId(h)
  IN  Done(AllocIdentityRows(Alloc(h, "Matrix", EmptyArray), mat, n, 0), mat)

\* an input matrix placed in the heap by the caller
RECURSIVE AllocRows(_, _, _, _)
AllocRows(h, mat, m, i) ==
  IF i >= Length(m) THEN h
  ELSE LET row == NewId(h)
       IN  AllocRows(Store(Alloc(h, "Array", m[i]), mat, i, row), mat, m, i + 1)

AllocMatrix(h, m) ==
  LET mat == NewId(h)
  IN  Done(AllocRows(Alloc(h, "Matrix", EmptyArray), mat, m, 0), mat)

\* the matrix value an outer array denotes
MatrixAt(h, m) == [i \in DOMAIN h[m].elems |-> h[h[m].elems[i]].elems]

(***************************************************************************)
(* math4d.js: the N-by-N matrix operations, statement by statement.        *)
(***************************************************************************)
\* matMultN's loops: k = -1 stands for `result[i][j] = 0`, then k = 0..n-1
RECURSIVE matMultNLoop(_, _, _, _, _, _, _, _)
matMultNLoop(h, result, a, b, n, i, j, k) ==
  IF i >= n THEN Done(h, result)
  ELSE IF j >= n THEN matMultNLoop(h, result, a, b, n, i + 1, 0, -1)
  ELSE IF k = -1 THEN matMultNLoop(Write(h, result, i, j, 0), result, a, b, n, i, j, 0)
  ELSE IF k >= n THEN matMultNLoop(h, result, a, b, n, i, j + 1, -1)
  ELSE IF NoRow(h, b, k) THEN Thrown(h)
  ELSE matMultNLoop(
         Write(h, result, i, j,
               Plus(Read(h, result, i, j), Times(Read(h, a, i, k), Read(h, b, k, j)))),
         result, a, b, n, i, j, k + 1)

\* export function matMultN(a, b)
matMultN(h, a, b) ==
  LET n == Length(h[a].elems)
      id == AllocIdentity(h, n)
  IN  matMultNLoop(id.heap, id.ref, a, b, n, 0, 0, -1)

\* export function transposeN(mat)
RECURSIVE transposeNLoop(_, _, _, _, _, _)
transposeNLoop(h, result, mat, n, i, j) ==
  IF i >= n THEN Done(h, result)
  ELSE IF j >= n THEN transposeNLoop(h, result, mat, n, i + 1, 0)
  ELSE transposeNLoop(Write(h, result, i, j, Read(h, mat, j, i)), result, mat, n, i, j + 1)

transposeN(h, mat) ==
  LET n == Length(h[mat].elems)
      id == AllocIdentity(h, n)
  IN  transposeNLoop(id.heap, id.ref, mat, n, 0, 0)

\* the loops shared by matSubtractN (sign = -1) and matAddN (sign = 1):
\* j = -1 stands for `result[i] = []`
RECURSIVE matAddSubLoop(_, _, _, _, _, _, _, _)
matAddSubLoop(h, result, a, b, sign, n, i, j) ==
  IF i >= n THEN Done(h, result)
  ELSE IF j = -1
       THEN matAddSubLoop(Store(Alloc(h, "Array", EmptyArray), result, i, NewId(h)),
                          result, a, b, sign, n, i, 0)
  ELSE IF j >= n THEN matAddSubLoop(h, result, a, b, sign, n, i + 1, -1)
  ELSE IF NoRow(h, b, i) THEN Thrown(h)
  ELSE matAddSubLoop(
         Write(h, result, i, j, Plus(Read(h, a, i, j), Times(sign, Read(h, b, i, j)))),
         result, a, b, sign, n, i, j + 1)

\* export function matSubtractN(a, b)
matSubtractN(h, a, b) ==
  matAddSubLoop(Alloc(h, "Matrix", EmptyArray), NewId(h), a, b, -1,
                Length(h[a].elems), 0, -1)

\* export function matAddN(a, b)
matAddN(h, a, b) ==
  matAddSubLoop(Alloc(h, "Matrix", EmptyArray), NewId(h), a, b, 1,
                Length(h[a].elems), 0, -1)

\* export function matScaleN(mat, s)
RECURSIVE matScaleNLoop(_, _, _, _, _, _, _)
matScaleNLoop(h, result, mat, s, n, i, j) ==
  IF i >= n THEN Done(h, result)
  ELSE IF j = -1
       THEN matScaleNLoop(Store(Alloc(h, "Array", EmptyArray), result, i, NewId(h)),
                          result, mat, s, n, i, 0)
  ELSE IF j >= n THEN matScaleNLoop(h, result, mat, s, n, i + 1, -1)
  ELSE matScaleNLoop(Write(h, result, i, j, Times(Read(h, mat, i, j), s)),
                     result, mat, s, n, i, j + 1)

matScaleN(h, mat, s) ==
  matScaleNLoop(Alloc(h, "Matrix", EmptyArray), NewId(h), mat, s,
                Length(h[mat].elems), 0, -1)

(***************************************************************************)
(* The wasm-bindgen glue: arguments are copied into the module's linear    *)
(* memory, the export writes its result there, and the glue hands back a   *)
(* copy of it.                                                             *)
(***************************************************************************)
\* Float64Array cells of linear memory: room for two arguments and a result
MemCells == 3 * OpsMaxDim * OpsMaxDim
Addresses == 0..(MemCells - 1)

\* what a Float64Array holds, whether it owns its buffer or views linear memory
TypedContents(h, mem, f) ==
  IF h[f].kind = "View"
  THEN [k \in DOMAIN h[f].elems |-> mem[h[f].elems[k]]]
  ELSE h[f].elems

\* getFloat64ArrayMemory0().set(arg, ptr / 8), addresses counted in cells
passArrayF64ToWasm0(mem, arg, ptr) ==
  [c \in DOMAIN mem |-> IF (c - ptr) \in DOMAIN arg THEN arg[c - ptr] ELSE mem[c]]

\* the addresses where an export may place a result of len cells while its
\* arguments occupy the first used cells
ResultPtrs(used, len) == {ptr \in Addresses : ptr >= used /\ ptr + len <= MemCells}

\* the cells an export writes at ret: the first-order part of the kernel's
\* value, (M - I) for the logarithm and (A + B) for the interpolation
ExportWrites(mem, ret, cells) ==
  [c \in DOMAIN mem |-> IF (c - ret) \in DOMAIN cells THEN cells[c - ret] ELSE mem[c]]

wasm_matrix_logm(mem, ptr0, len0, n, ret) ==
  ExportWrites(mem, ret,
    [k \in 0..(n * n - 1) |->
       IF k < len0 THEN mem[ptr0 + k] - (IF k \div n = k % n THEN 1 ELSE 0) ELSE 0])

wasm_geodesic_interp(mem, ptr0, len0, ptr1, len1, n, ret) ==
  ExportWrites(mem, ret,
    [k \in 0..(n * n - 1) |->
       IF k < len0 /\ k < len1 THEN mem[ptr0 + k] + mem[ptr1 + k] ELSE 0])

\* getArrayF64FromWasm0(ptr, len) handed back as it is: a view of linear memory
getArrayF64FromWasm0View(h, mem, ptr, len) ==
  Done(Alloc(h, "View", [k \in 0..(len - 1) |-> ptr + k]), NewId(h))

\* getArrayF64FromWasm0(ptr, len).slice(): a Float64Array with its own buffer
getArrayF64FromWasm0Slice(h, mem, ptr, len) ==
  Done(Alloc(h, "Float64Array", [k \in 0..(len - 1) |-> mem[ptr + k]]), NewId(h))

\* export function matrix_logm(matrix, n) of the glue; ret is the address
\* the export returns
glue_matrix_logm(h, mem, matrix, n, ret) ==
  LET arg == TypedContents(h, mem, matrix)
      len0 == Length(arg)
      mem1 == wasm_matrix_logm(passArrayF64ToWasm0(mem, arg, 0), 0, len0, n, ret)
  IN  [out |-> getArrayF64FromWasm0Slice(h, mem1, ret, n * n), mem |-> mem1]

\* export function geodesic_interp(a, b, t, n) of the glue
glue_geodesic_interp(h, mem, a, b, n, ret) ==
  LET arg0 == TypedContents(h, mem, a)
      arg1 == TypedContents(h, mem, b)
      len0 == Length(arg0)
      len1 == Length(arg1)
      mem1 == passArrayF64ToWasm0(passArrayF64ToWasm0(mem, arg0, 0), arg1, len0)
      mem2 == wasm_geodesic_interp(mem1, 0, len0, len0, len1, n, ret)
  IN  [out |-> getArrayF64FromWasm0Slice(h, mem2, ret, n * n), mem |-> mem2]

\* geodesic-wasm.js matrixToFlat and flatToMatrix on heap objects
matrixToFlatAlloc(h, matrix) ==
  Done(Alloc(h, "Float64Array", matrixToFlat(MatrixAt(h, matrix))), NewId(h))

flatToMatrixAlloc(h, mem, flat, n) ==
  AllocMatrix(h, flatToMatrix(TypedContents(h, mem, flat), n))

(***************************************************************************)
(* The caller: it holds every matrix and Float64Array created so far and   *)
(* applies one operation at a time to operands it picks among them.        *)
(***************************************************************************)
MatricesOf(h) == {id \in 1..Len(h) : h[id].kind = "Matrix"}
TypedArraysOf(h) == {id \in 1..Len(h) : h[id].kind \in {"Float64Array", "View"}}
OpsMatrices == UNION {PermutationMatrices(n) : n \in 1..OpsMaxDim}
Scalars == {2}
\* the n a wrapper passes along with a flat array of n * n entries
DimOf(len) == CHOOSE n \in 0..len : n * n = len
IsSquareLen(len) == \E n \in 0..len : n * n = len

Op(op, a, b, out) == [op |-> op, a |-> a, b |-> b, result |-> out.ref, threw |-> out.threw]
NoOp == [op |-> "none", a |-> 0, b |-> 0, result |-> 0, threw |-> FALSE]

\* what a call that threw had allocated is unreachable: the caller's heap is
\* the one before the call
Apply(op, a, b, out) ==
  /\ opCount < MaxOps
  /\ heap' = IF out.threw THEN heap ELSE out.heap
  /\ lastOp' = Op(op, a, b, out)
  /\ opCount' = opCount + 1

CallMatMultN ==
  /\ \E a \in MatricesOf(heap), b \in MatricesOf(heap) :
       Apply("matMultN", a, b, matMultN(heap, a, b))
  /\ UNCHANGED <<wmem, notOps>>

CallMatAddN ==
  /\ \E a \in MatricesOf(heap), b \in MatricesOf(heap) :
       Apply("matAddN", a, b, matAddN(heap, a, b))
  /\ UNCHANGED <<wmem, notOps>>

CallMatSubtractN ==
  /\ \E a \in MatricesOf(heap), b \in MatricesOf(heap) :
       Apply("matSubtractN", a, b, matSubtractN(heap, a, b))
  /\ UNCHANGED <<wmem, notOps>>

CallMatScaleN ==
  /\ \E mat \in MatricesOf(heap), s \in Scalars :
       Apply("matScaleN", mat, 0, matScaleN(heap, mat, s))
  /\ UNCHANGED <<wmem, notOps>>

CallTransposeN ==
  /\ \E mat \in MatricesOf(heap) :
       Apply("transposeN", mat, 0, transposeN(heap, mat))
  /\ UNCHANGED <<wmem, notOps>>

CallMatrixToFlat ==
  /\ \E mat \in MatricesOf(heap) :
       Apply("matrixToFlat", mat, 0, matrixToFlatAlloc(heap, mat))
  /\ UNCHANGED <<wmem, notOps>>

CallFlatToMatrix ==
  /\ \E flat \in TypedArraysOf(heap) :
       /\ IsSquareLen(Length(heap[flat].elems))
       /\ Apply("flatToMatrix", flat, 0,
                flatToMatrixAlloc(heap, wmem, flat, DimOf(Length(heap[flat].elems))))
  /\ UNCHANGED <<wmem, notOps>>

CallGlueMatrixLogm ==
  /\ \E matrix \in TypedArraysOf(heap) :
       LET len == Length(heap[matrix].elems)
           n == DimOf(len)
       IN  /\ IsSquareLen(len)
           /\ \E ret \in ResultPtrs(len, n * n) :
                LET r == glue_matrix_logm(heap, wmem, matrix, n, ret)
                IN  /\ Apply("matrix_logm", matrix, 0, r.out)
                    /\ wmem' = r.mem
  /\ UNCHANGED notOps

CallGlueGeodesicInterp ==
  /\ \E a \in TypedArraysOf(heap), b \in TypedArraysOf(heap) :
       LET len0 == Length(heap[a].elems)
           len1 == Length(heap[b].elems)
           n == DimOf(len0)
       IN  /\ IsSquareLen(len0)
           /\ len1 = len0
           /\ \E ret \in ResultPtrs(len0 + len1, n * n) :
                LET r == glue_geodesic_interp(heap, wmem, a, b, n, ret)
                IN  /\ Apply("geodesic_interp", a, b, r.out)
                    /\ wmem' = r.mem
  /\ UNCHANGED notOps

OpsIdle ==
  /\ heap = <<>>
  /\ wmem = [c \in Addresses |-> 0]
  /\ lastOp = NoOp
  /\ opCount = 0


(***************************************************************************)
(* Numbers of the logarithm specification.  An entry x of an argument is   *)
(* the integer x * One; the tolerance 1e-10 of logUnitary is Tol such      *)
(* units.  A term of matrixLogN's series, (-1)^(k+1) (M - I)^k / k, is the *)
(* integer numerator it has over the common denominator Den.               *)
(***************************************************************************)
One == 2
Tol == 1
Terms == 8

RECURSIVE Gcd(_, _)
Gcd(a, b) == IF b = 0 THEN a ELSE Gcd(b, a % b)
RECURSIVE LcmUpTo(_)
LcmUpTo(k) == IF k <= 1 THEN 1 ELSE LET l == LcmUpTo(k - 1) IN (l * k) \div Gcd(l, k)
RECURSIVE Pow(_, _)
Pow(b, e) == IF e = 0 THEN 1 ELSE b * Pow(b, e - 1)
Abs(x) == IF x < 0 THEN -x ELSE x

\* the common denominator of the series' coefficients over One^Terms
SeriesLcm == LcmUpTo(Terms)

\* Math.pow(-1, k + 1) / k as a numerator over Den, for a power over One^k
Coefs ==
  [k \in 1..Terms |->
     (IF k % 2 = 1 THEN 1 ELSE -1) * (SeriesLcm \div k) * Pow(One, Terms - k)]
Coef(k) == Coefs[k]

\* the math4d.js operations on matrix values of one dimension (the heap
\* plays no part in what matrixLogN computes)
RECURSIVE DotN(_, _, _, _, _, _)
DotN(a, b, i, j, k, n) ==
  IF k >= n THEN 0 ELSE a[i][k] * b[k][j] + DotN(a, b, i, j, k + 1, n)
MatMultValue(a, b) ==
  LET n == Length(a)
  IN  [i \in 0..(n - 1) |-> [j \in 0..(n - 1) |-> DotN(a, b, i, j, 0, n)]]
MatSubtractValue(a, b) ==
  [i \in 0..(Length(a) - 1) |-> [j \in 0..(Length(a) - 1) |-> a[i][j] - b[i][j]]]
MatAddValue(a, b) ==
  [i \in 0..(Length(a) - 1) |-> [j \in 0..(Length(a) - 1) |-> a[i][j] + b[i][j]]]
MatScaleValue(mat, s) ==
  [i \in 0..(Length(mat) - 1) |-> [j \in 0..(Length(mat) - 1) |-> mat[i][j] * s]]
\* a matrix value with every entry computed once
RECURSIVE ComputedRow(_, _, _)
ComputedRow(row, n, j) ==
  IF j >= n - 1 THEN (j :> row[j]) ELSE (j :> row[j]) @@ ComputedRow(row, n, j + 1)
RECURSIVE ComputedRows(_, _, _)
ComputedRows(mat, n, i) ==
  IF i >= n - 1 THEN (i :> ComputedRow(mat[i], n, 0))
  ELSE (i :> ComputedRow(mat[i], n, 0)) @@ ComputedRows(mat, n, i + 1)
Computed(mat) == ComputedRows(mat, Length(mat), 0)
IdentityValue(n) == [i \in 0..(n - 1) |-> [j \in 0..(n - 1) |-> IF i = j THEN One ELSE 0]]
ZeroValue(n) == [i \in 0..(n - 1) |-> [j \in 0..(n - 1) |-> 0]]

\* export function rotationND(n, i, j, theta), with c = cos(theta) and
\* s = sin(theta) given in units
rotationND(n, i, j, c, s) ==
  [r \in 0..(n - 1) |-> [q \in 0..(n - 1) |->
     IF r = i /\ q = i THEN c
     ELSE IF r = i /\ q = j THEN -s
     ELSE IF r = j /\ q = i THEN s
     ELSE IF r = j /\ q = j THEN c
     ELSE IdentityValue(n)[r][q]]]

\* the cosine and sine of the multiples of a quarter turn
QuarterTurns == {<<One, 0>>, <<0, One>>, <<-One, 0>>, <<0, -One>>}

\* the rotations of the plane by a multiple of a quarter turn
LogRotations == {rotationND(2, 0, 1, cs[1], cs[2]) : cs \in QuarterTurns}

\* the arguments: the identity plus a deviation of at most MaxDev units per
\* entry, and the quarter-turn rotations
LogDims == {1, 2}
LogMatrices ==
  UNION {{[i \in 0..(n - 1) |-> [j \in 0..(n - 1) |-> IdentityValue(n)[i][j] + d[i][j]]] :
            d \in SquareMatrices(n, 0..MaxDev)} : n \in LogDims}
    \cup LogRotations

\* A sum of squares can exceed the integers of the model checker: it is kept
\* as the sequence of its six digits in base 1024, lowest first (the highest
\* digit is not reduced).
WideSquare(x) ==
  LET a == Abs(x)
      l0 == a % 1024
      l1 == (a \div 1024) % 1024
      l2 == a \div (1024 * 1024)
  IN  <<l0 * l0, 2 * l0 * l1, 2 * l0 * l2 + l1 * l1, 2 * l1 * l2, l2 * l2, 0>>

WideAdd(v, w) == [d \in 1..6 |-> v[d] + w[d]]

RECURSIVE WideCarry(_, _, _)
WideCarry(w, d, carry) ==
  IF d = 6 THEN [w EXCEPT ![6] = @ + carry]
  ELSE WideCarry([w EXCEPT ![d] = (@ + carry) % 1024], d + 1, (w[d] + carry) \div 1024)

WideZero == [d \in 1..6 |-> 0]

\* the number a sequence of digits stands for, when it is below 1024 * 1024
WideSmall(w) == w[1] + 1024 * w[2]
WideIsSmall(w) == \A d \in 3..6 : w[d] = 0

\* math4d.js frobeniusNorm(mat), squared: the sum of the squares of the entries
RECURSIVE frobeniusNormSqLoop(_, _, _, _)
frobeniusNormSqLoop(mat, n, k, sum) ==
  IF k >= n * n THEN WideCarry(sum, 1, 0)
  ELSE frobeniusNormSqLoop(mat, n, k + 1,
                           WideAdd(sum, WideSquare(mat[k \div n][k % n])))

frobeniusNormSq(mat) == frobeniusNormSqLoop(mat, Length(mat), 0, WideZero)

\* ||M - I||_F < 0.5, for M in units: 4 ||M - I||_F^2 < One^2
BelowThreshold(M) ==
  LET w == frobeniusNormSq(MatSubtractValue(M, IdentityValue(Length(M))))
  IN  WideIsSmall(w) /\ 4 * WideSmall(w) < One * One

\* geodesic.js logUnitary: the isIdentity loops
isIdentity(U) ==
  \A i \in DOMAIN U : \A j \in DOMAIN U :
    ~(Abs(U[i][j] - (IF i = j THEN One ELSE 0)) > Tol)

LogOutcome(kind, error, via) == [kind |-> kind, error |-> error, via |-> via]
NoLogOutcome == LogOutcome("none", "none", "none")
NoCount == [sqrt |-> 0, series |-> 0, schur |-> 0, eig |-> 0]
NoNeed == [sqrt |-> 0, schur |-> 0, eig |-> "none"]
EigError == "numeric: eigenvalue iteration does not converge -- increase maxiter?"
NumericalFailure == "numerical failure"

LogIdle ==
  /\ logImpl = "none"
  /\ logU = EmptyArray
  /\ logPc = "idle"
  /\ logK = 0
  /\ logPower = EmptyArray
  /\ logResult = EmptyArray
  /\ logTried = <<>>
  /\ logFailed = {}
  /\ logNeed = NoNeed
  /\ logCount = NoCount
  /\ logOutcome = NoLogOutcome

\* a call begins: everything of the previous call is gone
LogBegin(impl, U, pc, need) ==
  /\ logPc = "idle"
  /\ logImpl' = impl
  /\ logU' = U
  /\ logPc' = pc
  /\ logNeed' = need
  /\ logTried' = <<>>
  /\ logFailed' = {}
  /\ logCount' = NoCount
  /\ logOutcome' = NoLogOutcome

\* a call ends with a return or a throw
LogEnd(kind, error, via) ==
  /\ logPc' = "done"
  /\ logOutcome' = LogOutcome(kind, error, via)

(***************************************************************************)
(* geodesic.js logUnitary(U).                                              *)
(***************************************************************************)
EigOutcomes == {"ok", "singular", "throws"}

LogUnitaryCall ==
  /\ logPc = "idle"
  /\ \E U \in LogMatrices, e \in EigOutcomes :
       LogBegin("logUnitary", U, "check", [NoNeed EXCEPT !.eig = e])
  /\ logK' = 0
  /\ logPower' = EmptyArray
  /\ logResult' = EmptyArray
  /\ UNCHANGED notLog

\* the test skipped: every argument goes to numeric.eig
LogUnitaryNoCheck ==
  /\ logImpl = "logUnitary"
  /\ logPc = "check"
  /\ logPc' = "eig"
  /\ UNCHANGED <<logResult, logOutcome>>
  /\ UNCHANGED <<logImpl, logU, logK, logPower, logTried, logFailed, logNeed,
                 logCount, notLog>>

\* lines 70-86: the identity test and the zero matrix returned at once
LogUnitaryCheck ==
  /\ logImpl = "logUnitary"
  /\ logPc = "check"
  /\ IF isIdentity(logU)
     THEN /\ logResult' = ZeroValue(Length(logU))
          /\ LogEnd("return", "none", "shortcut")
     ELSE /\ logPc' = "eig"
          /\ UNCHANGED <<logResult, logOutcome>>
  /\ UNCHANGED <<logImpl, logU, logK, logPower, logTried, logFailed, logNeed,
                 logCount, notLog>>

\* line 90: numeric.eig(U_array) returns or throws
LogUnitaryEig ==
  /\ logImpl = "logUnitary"
  /\ logPc = "eig"
  /\ logCount' = [logCount EXCEPT !.eig = @ + 1]
  /\ IF logNeed.eig = "throws"
     THEN /\ logFailed' = logFailed \cup {"eigen"}
          /\ LogEnd("throw", EigError, "none")
     ELSE /\ logPc' = "inverse"
          /\ UNCHANGED <<logFailed, logOutcome>>
  /\ UNCHANGED <<logImpl, logU, logK, logPower, logResult, logTried, logNeed, notLog>>

\* lines 125-161: V.inv(), the NaN test, and the product V L V^-1
LogUnitaryInverse ==
  /\ logImpl = "logUnitary"
  /\ logPc = "inverse"
  /\ IF logNeed.eig = "singular"
     THEN /\ logFailed' = logFailed \cup {"eigen"}
          /\ logResult' = ZeroValue(Length(logU))
          /\ LogEnd("return", "none", "none")
     ELSE /\ logFailed' = logFailed
          /\ logResult' = EmptyArray
          /\ LogEnd("return", "none", "eigen")
  /\ UNCHANGED <<logImpl, logU, logK, logPower, logTried, logNeed, logCount, notLog>>

(***************************************************************************)
(* math4d.js matrixLogN(mat, terms = 8).                                   *)
(***************************************************************************)
\* lines 351-357: I, A = M - I, result = A, power = A
MatrixLogNCall ==
  /\ logPc = "idle"
  /\ \E mat \in LogMatrices :
       LET A == MatSubtractValue(mat, IdentityValue(Length(mat)))
       IN  /\ LogBegin("matrixLogN", mat, "series", NoNeed)
           /\ logResult' = MatScaleValue(A, Coef(1))
           /\ logPower' = A
  /\ logK' = 2
  /\ UNCHANGED notLog

\* the loop running for as long as the power is not the zero matrix
MatrixLogNTermWhilePowerNonZero ==
  /\ logImpl = "matrixLogN"
  /\ logPc = "series"
  /\ logPower # ZeroValue(Length(logU))
  /\ logK <= Terms + 1
  /\ LET A == MatSubtractValue(logU, IdentityValue(Length(logU)))
         power == MatMultValue(logPower, A)
         term == MatScaleValue(power, Coef(IF logK <= Terms THEN logK ELSE Terms))
     IN  /\ logPower' = power
         /\ logResult' = MatAddValue(logResult, term)
  /\ logK' = logK + 1
  /\ logCount' = [logCount EXCEPT !.series = @ + 1]
  /\ UNCHANGED <<logImpl, logU, logPc, logTried, logFailed, logNeed, logOutcome, notLog>>

\* lines 359-363: one pass of `for (let k = 2; k <= terms; k++)`
MatrixLogNTerm ==
  /\ logImpl = "matrixLogN"
  /\ logPc = "series"
  /\ logK <= Terms
  /\ LET A == MatSubtractValue(logU, IdentityValue(Length(logU)))
         power == MatMultValue(logPower, A)
         term == MatScaleValue(power, Coef(logK))
     IN  /\ logPower' = power
         /\ logResult' = MatAddValue(logResult, term)
  /\ logK' = logK + 1
  /\ logCount' = [logCount EXCEPT !.series = @ + 1]
  /\ UNCHANGED <<logImpl, logU, logPc, logTried, logFailed, logNeed, logOutcome, notLog>>

\* line 365: return result
MatrixLogNReturn ==
  /\ logImpl = "matrixLogN"
  /\ logPc = "series"
  /\ logK > Terms
  /\ LogEnd("return", "none", "series")
  /\ UNCHANGED <<logImpl, logU, logK, logPower, logResult, logTried, logFailed,
                 logNeed, logCount, notLog>>

(***************************************************************************)
(* The kernel's logarithm: matrix_logm starts with scaling-and-squaring,   *)
(* matrix_logm_eigen with the Schur decomposition; each falls back to the  *)
(* other method once.  How many iterations an argument needs is a property *)
(* of the argument, drawn when the call begins.                            *)
(***************************************************************************)
KernelImpls == {"matrix_logm", "matrix_logm_eigen"}
FirstMethod(impl) == IF impl = "matrix_logm" THEN "scaling" ELSE "schur"
Alternate(method) == IF method = "scaling" THEN "schur" ELSE "scaling"
LoopOf(method) == IF method = "scaling" THEN "sqrt" ELSE "schur"

KernelLogCall ==
  /\ logPc = "idle"
  /\ \E impl \in KernelImpls, U \in LogMatrices,
        ns \in 0..(MaxSqrtIter + 1), nq \in 0..(MaxSchurIter + 1) :
       LogBegin(impl, U, "check", [NoNeed EXCEPT !.sqrt = ns, !.schur = nq])
  /\ logK' = 0
  /\ logPower' = EmptyArray
  /\ logResult' = EmptyArray
  /\ UNCHANGED notLog

\* M = I within tolerance: the zero matrix at once; otherwise the first method
KernelCheck ==
  /\ logImpl \in KernelImpls
  /\ logPc = "check"
  /\ IF isIdentity(logU)
     THEN /\ logResult' = ZeroValue(Length(logU))
          /\ LogEnd("return", "none", "shortcut")
          /\ UNCHANGED logTried
     ELSE /\ logPc' = LoopOf(FirstMethod(logImpl))
          /\ logTried' = <<FirstMethod(logImpl)>>
          /\ UNCHANGED <<logResult, logOutcome>>
  /\ UNCHANGED <<logImpl, logU, logK, logPower, logFailed, logNeed, logCount, notLog>>

\* a failed method always hands over to the other one
KernelFailSwitchingAgain(method) ==
  /\ logFailed' = logFailed \cup {method}
  /\ IF Len(logTried) < 3
     THEN /\ logTried' = Append(logTried, Alternate(method))
          /\ logPc' = LoopOf(Alternate(method))
          /\ logK' = 0
          /\ UNCHANGED logOutcome
     ELSE /\ LogEnd("throw", NumericalFailure, "none")
          /\ UNCHANGED <<logTried, logK>>

\* a method has failed: the alternate method if it has not been started,
\* a numerical-failure error otherwise
KernelFail(method) ==
  /\ logFailed' = logFailed \cup {method}
  /\ IF Len(logTried) < 2
     THEN /\ logTried' = Append(logTried, Alternate(method))
          /\ logPc' = LoopOf(Alternate(method))
          /\ logK' = 0
          /\ UNCHANGED logOutcome
     ELSE /\ LogEnd("throw", NumericalFailure, "none")
          /\ UNCHANGED <<logTried, logK>>

\* one square root: the running matrix is still at least the threshold away
\* from the identity and the iteration cap is not reached
KernelSqrtStep ==
  /\ logImpl \in KernelImpls
  /\ logPc = "sqrt"
  /\ logK < logNeed.sqrt
  /\ logK < MaxSqrtIter
  /\ logK' = logK + 1
  /\ logCount' = [logCount EXCEPT !.sqrt = @ + 1]
  /\ UNCHANGED <<logImpl, logU, logPc, logPower, logResult, logTried, logFailed,
                 logNeed, logOutcome, notLog>>

\* the running matrix is within the threshold: the series and the scale-back
KernelTaylor ==
  /\ logImpl \in KernelImpls
  /\ logPc = "sqrt"
  /\ logK >= logNeed.sqrt
  /\ logCount' = [logCount EXCEPT !.series = @ + Terms]
  /\ logResult' = EmptyArray
  /\ LogEnd("return", "none", "scaling")
  /\ UNCHANGED <<logImpl, logU, logK, logPower, logTried, logFailed, logNeed, notLog>>

\* the iteration cap is reached before the threshold
KernelSqrtFailed ==
  /\ logImpl \in KernelImpls
  /\ logPc = "sqrt"
  /\ logK < logNeed.sqrt
  /\ logK >= MaxSqrtIter
  /\ KernelFail("scaling")
  /\ UNCHANGED <<logImpl, logU, logPower, logResult, logNeed, logCount, notLog>>

\* one sweep of the QR iteration of the Schur decomposition
KernelSchurStep ==
  /\ logImpl \in KernelImpls
  /\ logPc = "schur"
  /\ logK < logNeed.schur
  /\ logK < MaxSchurIter
  /\ logK' = logK + 1
  /\ logCount' = [logCount EXCEPT !.schur = @ + 1]
  /\ UNCHANGED <<logImpl, logU, logPc, logPower, logResult, logTried, logFailed,
                 logNeed, logOutcome, notLog>>

\* the decomposition has converged: the block logarithms and Q log(T) Q^T
KernelSchurLog ==
  /\ logImpl \in KernelImpls
  /\ logPc = "schur"
  /\ logK >= logNeed.schur
  /\ logResult' = EmptyArray
  /\ LogEnd("return", "none", "schur")
  /\ UNCHANGED <<logImpl, logU, logK, logPower, logTried, logFailed, logNeed,
                 logCount, notLog>>

\* the iteration limit is reached before convergence
KernelSchurFailed ==
  /\ logImpl \in KernelImpls
  /\ logPc = "schur"
  /\ logK < logNeed.schur
  /\ logK >= MaxSchurIter
  /\ KernelFail("schur")
  /\ UNCHANGED <<logImpl, logU, logPower, logResult, logNeed, logCount, notLog>>

\* the caller has the outcome and the call's locals are gone: the next
\* call may begin
LogReturn ==
  /\ logPc = "done"
  /\ logImpl' = "none"
  /\ logU' = EmptyArray
  /\ logPc' = "idle"
  /\ logK' = 0
  /\ logPower' = EmptyArray
  /\ logResult' = EmptyArray
  /\ logTried' = <<>>
  /\ logFailed' = {}
  /\ logNeed' = NoNeed
  /\ logCount' = NoCount
  /\ logOutcome' = NoLogOutcome
  /\ UNCHANGED notLog

(***************************************************************************)
(* Distances, interpolation and derivatives on exactly representable       *)
(* rotations: the rotation matrices with entries in {-1, 0, 1} (products   *)
(* of quarter turns rotationND(n, i, j, k PI / 2)).  On these the          *)
(* arithmetic of math4d.js is exact: a matrix is kept with integer         *)
(* entries, and the result of matrixLogN as integer numerators over        *)
(* SeriesLcm.                                                              *)
(***************************************************************************)
GeoDims == {2, 3}

\* the sign of a permutation p of 0..n-1
SignOf(p) ==
  LET inv == {ij \in (DOMAIN p) \X (DOMAIN p) : ij[1] < ij[2] /\ p[ij[1]] > p[ij[2]]}
  IN  IF Cardinality(inv) % 2 = 0 THEN 1 ELSE -1

RECURSIVE ProductOf(_, _)
ProductOf(f, k) == IF k < 0 THEN 1 ELSE f[k] * ProductOf(f, k - 1)

\* the n-by-n rotation matrices with entries in {-1, 0, 1}: signed
\* permutation matrices of determinant 1
GeoRotations(n) ==
  {[i \in 0..(n - 1) |-> [j \in 0..(n - 1) |-> IF ps[1][i] = j THEN ps[2][i] ELSE 0]] :
     ps \in {x \in Permutations(0..(n - 1)) \X [0..(n - 1) -> {-1, 1}] :
               SignOf(x[1]) * ProductOf(x[2], n - 1) = 1}}

GeoPairs == UNION {GeoRotations(n) \X GeoRotations(n) : n \in GeoDims}

\* transposeN with the inner loop started at j = i: the entries below the
\* diagonal stay those of identityNxN(n)
TransposeValueFromDiagonal(mat) ==
  [i \in 0..(Length(mat) - 1) |-> [j \in 0..(Length(mat) - 1) |->
     IF j >= i THEN mat[j][i] ELSE 0]]

\* math4d.js transposeN(mat) on matrix values
TransposeValue(mat) ==
  [i \in 0..(Length(mat) - 1) |-> [j \in 0..(Length(mat) - 1) |-> mat[j][i]]]

\* Math.pow(-1, k + 1) / k as a numerator over SeriesLcm * unit^Terms, for a
\* power of a matrix whose entries are numerators over unit
SeriesCoef(k, unit) ==
  (IF k % 2 = 1 THEN 1 ELSE -1) * (SeriesLcm \div k) * Pow(unit, Terms - k)

\* math4d.js matrixLogN, lines 359-363: the passes k..terms of the loop
RECURSIVE matrixLogNLoop(_, _, _, _, _)
matrixLogNLoop(A, power, result, k, unit) ==
  IF k > Terms THEN result
  ELSE LET nextPower == Computed(MatMultValue(power, A))
           term == MatScaleValue(nextPower, SeriesCoef(k, unit))
       IN  matrixLogNLoop(A, nextPower, Computed(MatAddValue(result, term)), k + 1, unit)

\* export function matrixLogN(mat, terms = 8), for mat with entries over unit;
\* the result has numerators over SeriesLcm * unit^Terms
matrixLogN(mat, unit) ==
  LET n == Length(mat)
      I == MatScaleValue(identityNxN(n), unit)
      A == Computed(MatSubtractValue(mat, I))
  IN  matrixLogNLoop(A, A, MatScaleValue(A, SeriesCoef(1, unit)), 2, unit)

\* geodesicDistanceSO with the product R Q in the place of R^T Q
geodesicDistanceSONoTranspose(R, Q) ==
  LET relativeRotation == MatMultValue(R, Q)
      logMat == matrixLogN(relativeRotation, 1)
  IN  frobeniusNormSq(logMat)

\* export function geodesicDistanceSO(R, Q): the square of the distance, as
\* a numerator over SeriesLcm^2 (in digits)
geodesicDistanceSO(R, Q) ==
  LET RT == TransposeValue(R)
      relativeRotation == MatMultValue(RT, Q)
      logMat == matrixLogN(relativeRotation, 1)
  IN  frobeniusNormSq(logMat)

\* The eigenvalues of a rotation of the plane or of space are 1 (in space) and
\* e^(+-i theta) with 2 cos(theta) = trace - (n - 2); numeric.eig is a library
\* taken at its contract: theta is returned in twelfths of a turn
TraceOf(U) == LET RECURSIVE Sum(_)
                  Sum(i) == IF i < 0 THEN 0 ELSE U[i][i] + Sum(i - 1)
              IN  Sum(Length(U) - 1)
EigenAngle(U) ==
  LET twoCos == TraceOf(U) - (Length(U) - 2)
  IN  CASE twoCos = 2 -> 0
        [] twoCos = 0 -> 3
        [] twoCos = -1 -> 4
        [] twoCos = -2 -> 6

\* geodesic.js logUnitary(U) followed by frobeniusNorm: the zero matrix of
\* lines 70-86 for an argument within 1e-10 of the identity, and otherwise
\* V diag(i theta_j) V^-1, of squared norm 2 theta^2 (in squared twelfths of
\* a turn, in digits)
logUnitaryNormSq(U) ==
  IF isIdentity(MatScaleValue(U, One))
  THEN frobeniusNormSq(ZeroValue(Length(U)))
  ELSE WideCarry(WideAdd(WideSquare(EigenAngle(U)), WideSquare(EigenAngle(U))), 1, 0)

\* geodesic.js geodesicDistance(R, T) on matrix values: ctranspose, multiply,
\* logUnitary, frobeniusNorm
geodesicDistanceValue(R, T) ==
  LET Rstar == TransposeValue(R)
      U == MatMultValue(Rstar, T)
  IN  logUnitaryNormSq(U)

\* math.logm(U), math.multiply(log_R, t) and math.expm are library calls.  The
\* logarithm of U is kept as what it is the logarithm of, with the factor it
\* was scaled by, in halves: [of |-> U, halves |-> 2] is log(U) itself.
LogmValue(U) == [of |-> U, halves |-> 2]
ScaledValue(L, t2) == [L EXCEPT !.halves = (@ * t2) \div 2]

\* the rotations S with S S = U and half the angle of U: the values of
\* exp(log(U) / 2).  A half turn has two logarithms of the same norm, and
\* either can be the one the library returns.
PrincipalRoots(U) ==
  {S \in GeoRotations(Length(U)) :
     MatMultValue(S, S) = U /\ 2 * EigenAngle(S) = EigenAngle(U)}

\* expm of a scaled logarithm: exp(0) = I, exp(log(U)) = U, and the principal
\* square roots of U for log(U) / 2
ExpmValues(L) ==
  IF L.halves = 0 \/ L.of = identityNxN(Length(L.of))
  THEN {identityNxN(Length(L.of))}
  ELSE IF L.halves = 2 THEN {L.of}
  ELSE PrincipalRoots(L.of)

\* geodesicInterp with the product A B in the place of A^T B
geodesicInterpValueNoTranspose(A, B, t2) ==
  LET R_rel == MatMultValue(A, B)
      log_R == LogmValue(R_rel)
      scaled_log == ScaledValue(log_R, t2)
  IN  {MatMultValue(A, R_interp) : R_interp \in ExpmValues(scaled_log)}

\* geodesicInterp without the multiplication of the logarithm by t
geodesicInterpValueUnscaled(A, B, t2) ==
  LET AT == TransposeValue(A)
      R_rel == MatMultValue(AT, B)
      log_R == LogmValue(R_rel)
  IN  {MatMultValue(A, R_interp) : R_interp \in ExpmValues(log_R)}

\* geodesic.js geodesicInterp(A, B, t) on matrix values, t = t2 / 2: the
\* matrices the call can return
geodesicInterpValue(A, B, t2) ==
  LET AT == TransposeValue(A)
      R_rel == MatMultValue(AT, B)
      log_R == LogmValue(R_rel)
      scaled_log == ScaledValue(log_R, t2)
  IN  {MatMultValue(A, R_interp) : R_interp \in ExpmValues(scaled_log)}

\* The step h = 1e-6 of dGeodesicAtZero is kept as an infinitesimal: a matrix
\* re + h eps, with the terms in h^2 dropped.
Dual(re, eps) == [re |-> re, eps |-> eps]

\* the skew-symmetric generators with entries in -MaxGen..MaxGen
Generators(n) ==
  {K \in [0..(n - 1) -> [0..(n - 1) -> (-MaxGen)..MaxGen]] :
     \A i \in 0..(n - 1) : \A j \in 0..(n - 1) : K[j][i] = -K[i][j]}

\* export function expOfScaled(K, eps), eps = sign * h: expm(eps K) = I + eps K
expOfScaled(K, sign) == Dual(identityNxN(Length(K)), MatScaleValue(K, sign))

\* export function H(R, K, eps) = R expm(eps K)
H(R, K, sign) ==
  LET E == expOfScaled(K, sign)
  IN  Dual(MatMultValue(R, E.re), MatMultValue(R, E.eps))

\* a distance lead + h sqrt(slope): lead is the squared norm of the logarithm
\* of the real part, and slope the squared norm of the part in h where the
\* real part is the identity
DualDistance(lead, slope) == [lead |-> lead, slope |-> slope]

\* geodesic.js logUnitary(U) followed by frobeniusNorm, for U = re + h eps:
\* next to the identity log(I + h D) = h D, unless every entry is within
\* 1e-10 of the identity's (lines 70-86)
logUnitaryDualNorm(U) ==
  IF isIdentity(MatScaleValue(U.re, One))
  THEN IF U.eps = ZeroValue(Length(U.re))
       THEN DualDistance(WideZero, WideZero)
       ELSE DualDistance(WideZero, frobeniusNormSq(U.eps))
  ELSE DualDistance(logUnitaryNormSq(U.re), WideZero)

\* geodesic.js geodesicDistance(Hh, T) for Hh = re + h eps
geodesicDistanceDual(Hh, T) ==
  LET Rstar == Dual(TransposeValue(Hh.re), TransposeValue(Hh.eps))
      U == Dual(Computed(MatMultValue(Rstar.re, T)), Computed(MatMultValue(Rstar.eps, T)))
  IN  logUnitaryDualNorm(U)

\* (dp - dm) / (2 h): zero (the quotient of two zero distances) when the two
\* distances are equal, and otherwise a number named by the two distances
ZeroQuotient ==
  [dp |-> DualDistance(WideZero, WideZero), dm |-> DualDistance(WideZero, WideZero)]
DifferenceQuotient(dp, dm) ==
  IF dp = dm THEN ZeroQuotient ELSE [dp |-> dp, dm |-> dm]

\* dGeodesicAtZero with a forward difference: the distance at R in the place
\* of the distance at H(-h)
dGeodesicAtZeroValueForward(R, T, K) ==
  LET Hp == H(R, K, 1)
      Hm == H(R, K, 0)
      dp == geodesicDistanceDual(Hp, T)
      dm == geodesicDistanceDual(Hm, T)
  IN  DifferenceQuotient(dp, dm)

\* geodesic.js dGeodesicAtZero(R, T, K, h = 1e-6) on matrix values
dGeodesicAtZeroValue(R, T, K) ==
  LET Hp == H(R, K, 1)
      Hm == H(R, K, -1)
      dp == geodesicDistanceDual(Hp, T)
      dm == geodesicDistanceDual(Hm, T)
  IN  DifferenceQuotient(dp, dm)

\* matrixExpN(mat): exp(0) = I exactly; for any other matrix of numerators
\* over SeriesLcm the result is named by its argument, together with what is
\* known of it exactly: det(exp(L)) = e^(trace L) is 1 exactly when the trace
\* of L is zero
matrixExpN(L) ==
  IF L = ZeroValue(Length(L))
  THEN [kind |-> "matrix", value |-> identityNxN(Length(L)), det1 |-> TRUE]
  ELSE [kind |-> "exp", value |-> L, det1 |-> TraceOf(L) = 0]

\* matrixExpN(h K) = I + h K, to first order in h
matrixExpNAtH(K) == Dual(identityNxN(Length(K)), K)

\* matMultN, matAddN, matSubtractN and matScaleN on matrices re + h eps
DualMult(a, b) ==
  Dual(Computed(MatMultValue(a.re, b.re)),
       Computed(MatAddValue(MatMultValue(a.re, b.eps), MatMultValue(a.eps, b.re))))
DualAdd(a, b) == Dual(Computed(MatAddValue(a.re, b.re)), Computed(MatAddValue(a.eps, b.eps)))
DualSubtract(a, b) == Dual(MatSubtractValue(a.re, b.re), MatSubtractValue(a.eps, b.eps))
DualScale(a, c) == Dual(MatScaleValue(a.re, c), MatScaleValue(a.eps, c))

\* math4d.js matrixLogN on a matrix re + h eps: the same loop
RECURSIVE matrixLogNDualLoop(_, _, _, _)
matrixLogNDualLoop(A, power, result, k) ==
  IF k > Terms THEN result
  ELSE LET nextPower == DualMult(power, A)
           term == DualScale(nextPower, SeriesCoef(k, 1))
       IN  matrixLogNDualLoop(A, nextPower, DualAdd(result, term), k + 1)

matrixLogNDual(mat) ==
  LET n == Length(mat.re)
      I == Dual(identityNxN(n), ZeroValue(n))
      A == DualSubtract(mat, I)
  IN  matrixLogNDualLoop(A, A, DualScale(A, SeriesCoef(1, 1)), 2)

\* a call and what it returned
GeoCall(op, a, b, k, t, out) ==
  [op |-> op, a |-> a, b |-> b, k |-> k, t |-> t, out |-> out]
NoGeoCall == GeoCall("none", EmptyArray, EmptyArray, EmptyArray, 0, 0)

GeoIdle == geoCall = NoGeoCall

CallGeodesicDistanceSO ==
  /\ geoCall = NoGeoCall
  /\ \E RQ \in GeoPairs :
       geoCall' = GeoCall("geodesicDistanceSO", RQ[1], RQ[2], EmptyArray, 0,
                          geodesicDistanceSO(RQ[1], RQ[2]))
  /\ UNCHANGED notGeo

CallGeodesicDistance ==
  /\ geoCall = NoGeoCall
  /\ \E RT \in GeoPairs :
       geoCall' = GeoCall("geodesicDistance", RT[1], RT[2], EmptyArray, 0,
                          geodesicDistanceValue(RT[1], RT[2]))
  /\ UNCHANGED notGeo

\* t is 0, 1/2 or 1; at 1/2 the call is made where the halfway rotation is
\* exactly representable
CallGeodesicInterp ==
  /\ geoCall = NoGeoCall
  /\ \E AB \in GeoPairs, t2 \in 0..2 :
       \E out \in geodesicInterpValue(AB[1], AB[2], t2) :
         geoCall' = GeoCall("geodesicInterp", AB[1], AB[2], EmptyArray, t2,
                            Computed(out))
  /\ UNCHANGED notGeo

\* the target is the rotation itself or the identity
CallDGeodesicAtZero ==
  /\ geoCall = NoGeoCall
  /\ \E n \in GeoDims :
       \E R \in GeoRotations(n), K \in Generators(n) :
         \E T \in {R, identityNxN(n)} :
           geoCall' = GeoCall("dGeodesicAtZero", R, T, K, 0,
                              dGeodesicAtZeroValue(R, T, K))
  /\ UNCHANGED notGeo

\* matrixExpN(matrixLogN(R)), as in 'should be inverse operations'
CallExpOfLog ==
  /\ geoCall = NoGeoCall
  /\ \E n \in GeoDims :
       \E R \in GeoRotations(n) :
         geoCall' = GeoCall("matrixExpN(matrixLogN)", R, EmptyArray, EmptyArray, 0,
                            matrixExpN(Computed(matrixLogN(R, 1))))
  /\ UNCHANGED notGeo

\* matrixLogN(matrixExpN(h K)) for a generator K
CallLogOfExp ==
  /\ geoCall = NoGeoCall
  /\ \E n \in GeoDims :
       \E K \in Generators(n) :
         geoCall' = GeoCall("matrixLogN(matrixExpN)", EmptyArray, EmptyArray, K, 0,
                            matrixLogNDual(matrixExpNAtH(K)))
  /\ UNCHANGED notGeo

\* the caller has the result: the next call may be made
GeoReturn ==
  /\ geoCall # NoGeoCall
  /\ geoCall' = NoGeoCall
  /\ UNCHANGED notGeo

(***************************************************************************)
(* rotation-challenge.js: one RotationChallenge object and the calls the   *)
(* page makes on it (the second class of the file, lines 380-868).         *)
(*                                                                         *)
(* Orientations are taken on one one-parameter family of rotations and are *)
(* named by their angle, an integer number of quarters of a unit of        *)
(* distance: the identity is 0, and the distance between two orientations  *)
(* is the difference of their angles.  Distances are counted in hundredths *)
(* (1.0 is 100), time in ticks of 0.1 s.                                   *)
(***************************************************************************)
\* this.winThreshold = 0.1, this.autoLockThreshold = 0.5, the reset level
\* 1.0 of update, in hundredths
winThreshold == 10
DefaultAutoLockThreshold == 50
ResetDistance == 100
\* hundredths of distance in one step of angle
AngleUnit == 100 \div 4
\* this.halfwayDuration = 0.5 s and the cap Math.min(..., 0.1) of gameLoop,
\* in ticks
halfwayDuration == 5
MaxFrameTime == 1
\* this.rotationSpeed * dt for one tick, in steps of angle
RotationPerTick == 1
\* the 0.99 of startAutoLock, in hundredths
AutoLockPercent == 99

Infinity == AngleUnit * MaxAngle + 1
NoOrientation == 0 - 1

\* the thresholds the page sets: the default and one above the reset level
Thresholds == {DefaultAutoLockThreshold, ResetDistance + AngleUnit + 1}
\* sampleRandomRotation: the target is the identity, near it or far from it
TargetAngles == {0, 1, MaxAngle}

\* x / d rounded to the nearest integer, halves away from zero
RoundDiv(x, d) ==
  IF x >= 0 THEN (2 * x + d) \div (2 * d) ELSE -((2 * (-x) + d) \div (2 * d))

\* geodesicInterpArray(A, B, t) for t = num / den, on the family of
\* orientations: the angle moves the fraction t of the way
InterpAngle(A, B, num, den) == A + RoundDiv((B - A) * num, den)

\* interpRotationSO(A, B, t), the interpolation of the animation
interpRotationSO(A, B, num, den) == InterpAngle(A, B, num, den)

\* geodesicDistanceArray(R, Q) on the family of orientations
AngleDistance(R, Q) == AngleUnit * Abs(Q - R)

\* easeInOutCubic(t) for t = k / halfwayDuration, as a numerator over EaseDen
EaseDen == 2 * halfwayDuration * halfwayDuration * halfwayDuration
easeInOutCubic(k) ==
  IF 2 * k < halfwayDuration
  THEN 8 * k * k * k
  ELSE EaseDen - Pow(2 * halfwayDuration - 2 * k, 3)

\* the last call: its name, whether it started auto-lock, whether it called
\* onWin, and whether a rotation control was held during it
ChalEvent(op, autoLock, onWin) ==
  [op |-> op, autoLock |-> autoLock, onWin |-> onWin, held |-> FALSE]

\* update, line 548, with > in the place of >=
AnimationCompleteStrict(progress) == progress > halfwayDuration

\* update, line 548: if (this.halfwayProgress >= 1.0)
AnimationComplete(progress) == progress >= halfwayDuration

\* update, lines 544-576: the animation, or the held rotation control
\* (held is 0 for no control, and else the direction)
Moved(dt, held) ==
  IF isAnimatingHalfway
  THEN LET progress == halfwayProgress + dt
       IN  IF AnimationComplete(progress)
           THEN [orientation |-> halfwayTargetOrientation, animating |-> FALSE,
                 progress |-> 0]
           ELSE [orientation |->
                   interpRotationSO(halfwayStartOrientation, halfwayTargetOrientation,
                                    easeInOutCubic(progress), EaseDen),
                 animating |-> TRUE, progress |-> progress]
  ELSE [orientation |-> playerOrientation + held * dt * RotationPerTick,
        animating |-> FALSE, progress |-> halfwayProgress]

\* updateDistance with the best score overwritten by every score
BestAfterOverwriting(distance) == distance

\* updateDistance, lines 629-631
BestAfter(distance) == IF distance < bestDistance THEN distance ELSE bestDistance

\* the auto-lock test without its first condition
AutoLockTriggersEveryTime(triggered, distance, above) ==
  distance < autoLockThreshold /\ above > ResetDistance

\* update, lines 595-597
AutoLockTriggers(triggered, distance, above) ==
  ~triggered /\ distance < autoLockThreshold /\ above > ResetDistance

\* the win test without !this.hasWon
WinsEveryTime(distance) == distance <= winThreshold

\* update, line 604
Wins(distance) == ~hasWon /\ distance <= winThreshold

\* update(dt): the whole method
Update(dt, held) ==
  LET m == Moved(dt, held)
      distance == AngleDistance(targetRotation, m.orientation)
      inBlock == autoLockEnabled /\ ~m.animating
      reset == inBlock /\ distance > ResetDistance
      above == IF reset THEN distance ELSE lastDistanceAboveReset
      triggered == IF reset THEN FALSE ELSE hasTriggeredAutoLock
      start == inBlock /\ AutoLockTriggers(triggered, distance, above)
      wins == Wins(distance)
  IN  /\ m.orientation \in 0..MaxAngle
      /\ playerOrientation' = m.orientation
      /\ currentDistance' = distance
      /\ bestDistance' = BestAfter(distance)
      /\ lastDistanceAboveReset' = above
      /\ hasTriggeredAutoLock' = (triggered \/ start)
      \* startAutoLock, lines 751-766
      /\ isAnimatingHalfway' = (m.animating \/ start)
      /\ halfwayProgress' = IF start THEN 0 ELSE m.progress
      /\ halfwayStartOrientation' =
           IF start THEN m.orientation ELSE halfwayStartOrientation
      /\ halfwayTargetOrientation' =
           IF start THEN InterpAngle(m.orientation, targetRotation, AutoLockPercent, 100)
           ELSE halfwayTargetOrientation
      /\ hasWon' = (hasWon \/ wins)
      /\ chalEvent' = [ChalEvent("update", start, wins) EXCEPT !.held = (held # 0)]
      /\ animElapsed' = IF m.animating THEN animElapsed + dt ELSE 0
      /\ cycleOpen' = IF start THEN [started |-> TRUE, rose |-> FALSE, set |-> FALSE]
                      ELSE IF distance > ResetDistance
                           THEN [cycleOpen EXCEPT !.rose = TRUE]
                           ELSE cycleOpen
      /\ onWinCalls' = IF wins THEN (IF onWinCalls < 2 THEN onWinCalls + 1 ELSE 2)
                       ELSE onWinCalls
      /\ UNCHANGED <<targetRotation, autoLockEnabled, autoLockThreshold, notChal>>

\* newChallenge(), lines 506-532: the paths play no part in what follows
NewChallenge ==
  /\ \E target \in TargetAngles : targetRotation' = target
  /\ playerOrientation' = 0
  /\ currentDistance' = Infinity
  /\ bestDistance' = Infinity
  /\ hasWon' = FALSE
  /\ chalEvent' = ChalEvent("newChallenge", FALSE, FALSE)
  /\ onWinCalls' = 0
  /\ UNCHANGED <<autoLockVars, animVars, animElapsed, cycleOpen, notChal>>

\* halfTheDistance without its first line
HalfTheDistanceRestarting ==
  /\ isAnimatingHalfway' = TRUE
  /\ halfwayProgress' = 0
  /\ halfwayStartOrientation' = playerOrientation
  /\ halfwayTargetOrientation' = InterpAngle(playerOrientation, targetRotation, 1, 2)
  /\ animElapsed' = 0
  /\ chalEvent' = ChalEvent("halfTheDistance", FALSE, FALSE)
  /\ UNCHANGED <<playerOrientation, targetRotation, scoreVars, autoLockVars,
                 cycleOpen, onWinCalls, notChal>>

\* halfTheDistance(), lines 729-745
HalfTheDistance ==
  /\ IF isAnimatingHalfway
     THEN UNCHANGED <<animVars, animElapsed>>
     ELSE /\ isAnimatingHalfway' = TRUE
          /\ halfwayProgress' = 0
          /\ halfwayStartOrientation' = playerOrientation
          /\ halfwayTargetOrientation' =
               InterpAngle(playerOrientation, targetRotation, 1, 2)
          /\ animElapsed' = 0
  /\ chalEvent' = ChalEvent("halfTheDistance", FALSE, FALSE)
  /\ UNCHANGED <<playerOrientation, targetRotation, scoreVars, autoLockVars,
                 cycleOpen, onWinCalls, notChal>>

\* setAutoLockEnabled(enabled), lines 831-836
SetAutoLockEnabled(enabled) ==
  /\ autoLockEnabled' = enabled
  /\ hasTriggeredAutoLock' = FALSE
  /\ lastDistanceAboveReset' = Infinity
  /\ cycleOpen' = [cycleOpen EXCEPT !.set = TRUE]
  /\ chalEvent' = ChalEvent("setAutoLockEnabled", FALSE, FALSE)
  /\ UNCHANGED <<playerOrientation, targetRotation, scoreVars, autoLockThreshold,
                 animVars, animElapsed, onWinCalls, notChal>>

\* setAutoLockThreshold(threshold), lines 841-843
SetAutoLockThreshold(threshold) ==
  /\ autoLockThreshold' = threshold
  /\ chalEvent' = ChalEvent("setAutoLockThreshold", FALSE, FALSE)
  /\ UNCHANGED <<playerOrientation, targetRotation, scoreVars, autoLockEnabled,
                 hasTriggeredAutoLock, lastDistanceAboveReset, animVars,
                 animElapsed, cycleOpen, onWinCalls, notChal>>

\* the object before its constructor has run
ChalIdle ==
  /\ playerOrientation = 0
  /\ targetRotation = NoOrientation
  /\ currentDistance = Infinity
  /\ bestDistance = Infinity
  /\ hasWon = FALSE
  /\ autoLockEnabled = FALSE
  /\ autoLockThreshold = DefaultAutoLockThreshold
  /\ hasTriggeredAutoLock = FALSE
  /\ lastDistanceAboveReset = Infinity
  /\ isAnimatingHalfway = FALSE
  /\ halfwayProgress = 0
  /\ halfwayStartOrientation = NoOrientation
  /\ halfwayTargetOrientation = NoOrientation
  /\ chalEvent = ChalEvent("none", FALSE, FALSE)
  /\ animElapsed = 0
  /\ cycleOpen = [started |-> FALSE, rose |-> FALSE, set |-> FALSE]
  /\ onWinCalls = 0

(***************************************************************************)
(* rotation-challenge-main.js and the game loop of a challenge             *)
(* (rotation-challenge.js, gameLoop and start): the page constructs a      *)
(* challenge and starts its loop, and replaces it when the dimension       *)
(* changes.  The browser runs one requested animation frame at a time, and *)
(* handlers run to completion.                                             *)
(***************************************************************************)
\* the options of the dimension selector
Dimensions == {2, 3, 4}

\* a challenge after its constructor (this.running = true) and start()
StartedChallenge == [running |-> TRUE, pending |-> 1, frames |-> 0]

LoopEvent(op, id, ran, scheduled) ==
  [op |-> op, id |-> id, ran |-> ran, scheduled |-> scheduled]

\* gameLoop without its first line
gameLoopUnguarded(c) ==
  /\ c \in 1..Len(challenges)
  /\ challenges[c].pending > 0
  /\ challenges' =
       [challenges EXCEPT ![c].frames = IF @ < MaxFrames THEN @ + 1 ELSE MaxFrames]
  /\ loopEvent' = LoopEvent("gameLoop", c, TRUE, TRUE)
  /\ UNCHANGED <<currentDimensions, notLoop>>

\* gameLoop(currentTime), lines 848-858, run by the browser for a frame that
\* challenge c has requested: update, render and the request of the next
\* frame, or the return at the first line
gameLoop(c) ==
  /\ c \in 1..Len(challenges)
  /\ challenges[c].pending > 0
  /\ IF challenges[c].running
     THEN /\ challenges' =
               [challenges EXCEPT ![c].frames = IF @ < MaxFrames THEN @ + 1 ELSE MaxFrames]
          /\ loopEvent' = LoopEvent("gameLoop", c, TRUE, TRUE)
     ELSE /\ challenges' = [challenges EXCEPT ![c].pending = @ - 1]
          /\ loopEvent' = LoopEvent("gameLoop", c, FALSE, FALSE)
  /\ UNCHANGED <<currentDimensions, notLoop>>

\* the change handler of the dimension selector, rotation-challenge-main.js
\* lines 41-57
DimensionChange(newDimensions) ==
  /\ Len(challenges) < MaxChallenges
  /\ IF newDimensions # currentDimensions
     THEN /\ challenges' =
               Append([challenges EXCEPT ![Len(challenges)].running = FALSE],
                      StartedChallenge)
          /\ currentDimensions' = newDimensions
          /\ loopEvent' = LoopEvent("change", Len(challenges) + 1, FALSE, TRUE)
     ELSE /\ loopEvent' = LoopEvent("change", Len(challenges), FALSE, FALSE)
          /\ UNCHANGED <<challenges, currentDimensions>>
  /\ UNCHANGED notLoop

\* the page before init has run
LoopIdle ==
  /\ currentDimensions = 0
  /\ challenges = <<>>
  /\ loopEvent = LoopEvent("none", 0, FALSE, FALSE)

(***************************************************************************)
(* game.js: the player of the Game in the grid.  Positions are counted in  *)
(* steps of 0.05 and time in ticks of 1/16 s, so that the aerilou ship     *)
(* moves one step per tick (0.8 units a second).  The player faces along   *)
(* the first axis, forwards or backwards.                                  *)
(***************************************************************************)
\* scatterplot.gridRange = 4.0 and the distance 0.5 of moveAlongDimension,
\* in steps
gridRange == 80
MoveDistance == 10
\* this.moveSpeed = 0.8 a second, in steps per tick
moveSpeed == 1
\* this.linearThrust = 1.4 a second per second, counted as one step per tick
\* gained in a tick: speeds are whole numbers of steps per tick
linearThrust == 1
\* this.maxSpeed = 2.0 a second is 2.5 steps per tick: the largest whole speed
maxSpeed == 2
\* this.linearDamp = 0.8: Math.exp(-0.8 / 16) = 0.951, in thousandths
LinearDampFactor == 951

Axes == {1, 2}
ShipTypes == {"aerilou", "druuge"}

InGrid(p) == \A i \in Axes : p[i] >= -gridRange /\ p[i] <= gridRange

\* checkPardonRadius is reached with the player at p
PardonCheckAt(p) == IF InGrid(p) THEN "inside" ELSE "outside"

\* update, lines 322-327: the world bounds on one coordinate
EnforceBounds(x) ==
  IF x < -gridRange THEN -gridRange ELSE IF x > gridRange THEN gridRange ELSE x

\* update, lines 283-301: thrust, damping and the clamp of the speed
VelocityAfter(dt) ==
  LET thrust == IF isMovingForward
                THEN playerVelocity + orientation * linearThrust * dt
                ELSE playerVelocity
      damped == IF dt = 0 THEN thrust ELSE RoundDiv(thrust * LinearDampFactor, 1000)
  IN  IF damped * damped > maxSpeed * maxSpeed
      THEN (IF damped > 0 THEN maxSpeed ELSE -maxSpeed)
      ELSE damped

\* update(dt), lines 200-333, as far as the position is concerned
GameUpdate(dt) ==
  LET velocity == IF shipType = "aerilou" THEN playerVelocity ELSE VelocityAfter(dt)
      moves == shipType = "druuge" \/ isMovingForward
      step == IF shipType = "aerilou" THEN orientation * moveSpeed * dt
              ELSE velocity * dt
      moved == IF moves THEN [position EXCEPT ![1] = @ + step] ELSE position
  IN  /\ playerVelocity' = velocity
      /\ pardonCheck' = IF moves THEN PardonCheckAt(moved) ELSE pardonCheck
      /\ position' = [i \in Axes |-> EnforceBounds(moved[i])]
      /\ UNCHANGED <<orientation, shipType, isMovingForward, notGame>>

\* moveAlongDimension(dim), lines 162-177
MoveAlongDimension(dim) ==
  LET moved == [position EXCEPT ![dim] = @ + orientation * MoveDistance]
  IN  /\ Abs(moved[dim]) <= gridRange + MaxOutside * MoveDistance
      /\ position' = moved
      /\ pardonCheck' = PardonCheckAt(moved)
      /\ UNCHANGED <<orientation, shipType, isMovingForward, playerVelocity, notGame>>

\* setShipType(type), lines 123-127
SetShipType(type) ==
  /\ shipType' = IF type \in ShipTypes THEN type ELSE shipType
  /\ UNCHANGED <<position, orientation, isMovingForward, playerVelocity,
                 pardonCheck, notGame>>

\* setMovingForward(moving), lines 153-156
SetMovingForward(moving) ==
  /\ isMovingForward' = moving
  /\ UNCHANGED <<position, orientation, shipType, playerVelocity, pardonCheck,
                 notGame>>

\* no Game constructed
GameIdle ==
  /\ position = <<0, 0>>
  /\ orientation = 0
  /\ shipType = "none"
  /\ isMovingForward = FALSE
  /\ playerVelocity = 0
  /\ pardonCheck = "none"

AppIdle == ChalIdle /\ LoopIdle /\ GameIdle

(***************************************************************************)
(* geodesic-wasm.js initWasm, an async function: each call is a process    *)
(* that yields at its awaits.  The dynamic import and, in the glue,        *)
(* __wbg_init (fetch and instantiate) can fail; the catch turns every      *)
(* failure into the value false.                                           *)
(***************************************************************************)
InitCalls == 1..MaxInitCalls

\* initWasm without its first test: every call imports and loads
InitWasmCallWithoutEarlyReturn(c) ==
  /\ initPc[c] = "idle"
  /\ initPc' = [initPc EXCEPT ![c] = "importing"]
  /\ UNCHANGED <<moduleState, hasLogm, lastCall, notWasm>>

\* if (wasmInitialized) return true; otherwise await import(...)
InitWasmCall(c) ==
  /\ initPc[c] = "idle"
  /\ initPc' = [initPc EXCEPT ![c] = IF wasmInitialized THEN "resolvedTrue"
                                     ELSE "importing"]
  /\ UNCHANGED <<moduleState, hasLogm, lastCall, notWasm>>

\* the import resolved and wasm.default(...) is entered: __wbg_init returns
\* at once when the glue's `wasm` is set, and starts loading otherwise
InitWasmImported(c) ==
  /\ initPc[c] = "importing"
  /\ initPc' = [initPc EXCEPT ![c] = IF glueWasm # "undefined" THEN "finalized"
                                     ELSE "fetching"]
  /\ UNCHANGED <<moduleState, hasLogm, lastCall, notWasm>>

\* the import (or reading the .wasm file) threw: catch, return false
InitWasmImportFailed(c) ==
  /\ initPc[c] = "importing"
  /\ initPc' = [initPc EXCEPT ![c] = "resolvedFalse"]
  /\ UNCHANGED <<moduleState, hasLogm, lastCall, notWasm>>

\* __wbg_load resolved: __wbg_finalize_init sets the glue's `wasm`
InitWasmFetched(c) ==
  /\ initPc[c] = "fetching"
  /\ glueWasm' = "exports"
  /\ initPc' = [initPc EXCEPT ![c] = "finalized"]
  /\ UNCHANGED <<wasmModule, wasmInitialized, hasLogm, lastCall, notWasm>>

\* the same failure with `wasmModule = wasm` assigned before the await
InitWasmFetchFailedAfterAssigning(c) ==
  /\ initPc[c] = "fetching"
  /\ wasmModule' = "wasm"
  /\ initPc' = [initPc EXCEPT ![c] = "resolvedFalse"]
  /\ UNCHANGED <<wasmInitialized, glueWasm, hasLogm, lastCall, notWasm>>

\* __wbg_load rejected: catch, return false
InitWasmFetchFailed(c) ==
  /\ initPc[c] = "fetching"
  /\ initPc' = [initPc EXCEPT ![c] = "resolvedFalse"]
  /\ UNCHANGED <<moduleState, hasLogm, lastCall, notWasm>>

\* after await wasm.default(): wasmModule = wasm; wasmInitialized = true; return true
InitWasmFinish(c) ==
  /\ initPc[c] = "finalized"
  /\ wasmModule' = "wasm"
  /\ wasmInitialized' = TRUE
  /\ initPc' = [initPc EXCEPT ![c] = "resolvedTrue"]
  /\ UNCHANGED <<glueWasm, hasLogm, lastCall, notWasm>>

\* the caller has taken the promise's value
InitWasmReturn(c) ==
  /\ initPc[c] \in {"resolvedTrue", "resolvedFalse"}
  /\ initPc' = [initPc EXCEPT ![c] = "idle"]
  /\ UNCHANGED <<moduleState, hasLogm, lastCall, notWasm>>

(***************************************************************************)
(* The synchronous kernel calls a caller can make at any time.             *)
(***************************************************************************)
Call(op, a, b, k, t, outcome) ==
  [op |-> op, a |-> a, b |-> b, k |-> k, t |-> t,
   init |-> wasmInitialized, outcome |-> outcome]

NoCall == [op |-> "none", a |-> EmptyArray, b |-> EmptyArray, k |-> EmptyArray,
           t |-> 0, init |-> FALSE, outcome |-> NoOutcome]

TValues == 0..MaxT

CallGeodesicDistanceArray ==
  /\ \E R, T \in ArgMatrices :
       lastCall' = Call("geodesicDistanceArray", R, T, EmptyArray, 0,
                        geodesicDistanceArray(R, T))
  /\ UNCHANGED <<moduleState, hasLogm, initPc, notWasm>>

CallGeodesicInterpArray ==
  /\ \E A, B \in ArgMatrices, t \in TValues :
       lastCall' = Call("geodesicInterpArray", A, B, EmptyArray, t,
                        geodesicInterpArray(A, B, t))
  /\ UNCHANGED <<moduleState, hasLogm, initPc, notWasm>>

CallDGeodesicAtZeroArray ==
  /\ \E R, T, K \in ArgMatrices :
       lastCall' = Call("dGeodesicAtZeroArray", R, T, K, 0,
                        dGeodesicAtZeroArray(R, T, K))
  /\ UNCHANGED <<moduleState, hasLogm, initPc, notWasm>>

CallGeodesicDistanceWasm ==
  /\ \E R, T \in ArgMatrices :
       lastCall' = Call("geodesicDistanceWasm", R, T, EmptyArray, 0,
                        geodesicDistanceWasm(R, T))
  /\ UNCHANGED <<moduleState, hasLogm, initPc, notWasm>>

CallGeodesicInterpWasm ==
  /\ \E A, B \in ArgMatrices, t \in TValues :
       lastCall' = Call("geodesicInterpWasm", A, B, EmptyArray, t,
                        geodesicInterpWasm(A, B, t))
  /\ UNCHANGED <<moduleState, hasLogm, initPc, notWasm>>

CallMatrixLogmWasm ==
  /\ \E M \in ArgMatrices :
       lastCall' = Call("matrixLogmWasm", M, EmptyArray, EmptyArray, 0,
                        matrixLogmWasm(M))
  /\ UNCHANGED <<moduleState, hasLogm, initPc, notWasm>>

CallMatrixExpmWasm ==
  /\ \E M \in ArgMatrices :
       lastCall' = Call("matrixExpmWasm", M, EmptyArray, EmptyArray, 0,
                        matrixExpmWasm(M))
  /\ UNCHANGED <<moduleState, hasLogm, initPc, notWasm>>

FlatIdle ==
  /\ fMatrix = EmptyArray
  /\ fFlat = EmptyArray
  /\ fBack = EmptyArray
  /\ fpc = "unused"

WasmIdle ==
  /\ wasmModule = "null"
  /\ wasmInitialized = FALSE
  /\ glueWasm = "undefined"
  /\ hasLogm = FALSE
  /\ initPc = [c \in InitCalls |-> "idle"]
  /\ lastCall = NoCall

\* the module state after geodesic-wasm.js has been evaluated; the mathjs
\* build (with or without logm) is fixed for the run
InitWasm ==
  /\ wasmModule = "null"
  /\ wasmInitialized = FALSE
  /\ glueWasm = "undefined"
  /\ hasLogm \in BOOLEAN
  /\ initPc = [c \in InitCalls |-> "idle"]
  /\ lastCall = NoCall
  /\ FlatIdle
  /\ OpsIdle
  /\ LogIdle
  /\ GeoIdle
  /\ AppIdle

NextWasm ==
  \/ \E c \in InitCalls : InitWasmCall(c)
  \/ \E c \in InitCalls : InitWasmImported(c)
  \/ \E c \in InitCalls : InitWasmImportFailed(c)
  \/ \E c \in InitCalls : InitWasmFetched(c)
  \/ \E c \in InitCalls : InitWasmFetchFailed(c)
  \/ \E c \in InitCalls : InitWasmFinish(c)
  \/ \E c \in InitCalls : InitWasmReturn(c)
  \/ CallGeodesicDistanceArray
  \/ CallGeodesicInterpArray
  \/ CallDGeodesicAtZeroArray
  \/ CallGeodesicDistanceWasm
  \/ CallGeodesicInterpWasm
  \/ CallMatrixLogmWasm
  \/ CallMatrixExpmWasm

SpecWasm == InitWasm /\ [][NextWasm]_vars

SameCall(x, y) ==
  /\ x.op = y.op
  /\ x.a = y.a
  /\ x.b = y.b
  /\ x.k = y.k
  /\ x.t = y.t

\* two outcomes agree: both return or both throw the same error, and values
\* computed by the same implementation are equal (values computed by
\* different implementations are not compared bit by bit)
SameOutcome(o1, o2) ==
  /\ o1.kind = o2.kind
  /\ o1.error = o2.error
  /\ (o1.via = o2.via => o1.value = o2.value)

C7_ArrayWrappersNeverThrow ==
  (/\ lastCall.op \in {"geodesicDistanceArray", "geodesicInterpArray"}
   /\ Length(lastCall.a) = Length(lastCall.b))
    => lastCall.outcome.kind = "return"

(***************************************************************************)
(* Specification of the wire format: a matrix is drawn, converted to flat  *)
(* form, and converted back with the same n.                               *)
(***************************************************************************)
InitFlat ==
  /\ fMatrix \in InputMatrices
  /\ fFlat = EmptyArray
  /\ fBack = EmptyArray
  /\ fpc = "matrix"
  /\ WasmIdle
  /\ OpsIdle
  /\ LogIdle
  /\ GeoIdle
  /\ AppIdle

\* a caller (geodesicDistanceWasm, ...) runs matrixToFlat on its argument
MatrixToFlat ==
  /\ fpc = "matrix"
  /\ fFlat' = matrixToFlat(fMatrix)
  /\ fpc' = "flat"
  /\ UNCHANGED <<fMatrix, fBack, notFlat>>

\* a caller (geodesicInterpWasm, matrixExpmWasm) runs flatToMatrix with n
FlatToMatrix ==
  /\ fpc = "flat"
  /\ fBack' = flatToMatrix(fFlat, Length(fMatrix))
  /\ fpc' = "back"
  /\ UNCHANGED <<fMatrix, fFlat, notFlat>>

NextFlat == MatrixToFlat \/ FlatToMatrix

SpecFlat == InitFlat /\ [][NextFlat]_vars

InitOps ==
  /\ \E m1 \in OpsMatrices, m2 \in OpsMatrices :
       heap = AllocMatrix(AllocMatrix(<<>>, m1).heap, m2).heap
  /\ wmem = [c \in Addresses |-> 0]
  /\ lastOp = NoOp
  /\ opCount = 0
  /\ FlatIdle
  /\ WasmIdle
  /\ LogIdle
  /\ GeoIdle
  /\ AppIdle

NextOps ==
  \/ CallMatMultN
  \/ CallMatAddN
  \/ CallMatSubtractN
  \/ CallMatScaleN
  \/ CallTransposeN
  \/ CallMatrixToFlat
  \/ CallFlatToMatrix
  \/ CallGlueMatrixLogm
  \/ CallGlueGeodesicInterp

SpecOps == InitOps /\ [][NextOps]_vars

\* the objects that make up a matrix or a Float64Array
StorageOf(h, id) ==
  IF h[id].kind = "Matrix" THEN {id} \cup {h[id].elems[i] : i \in DOMAIN h[id].elems}
  ELSE {id}

\* the cells of linear memory an object's contents live in
CellsOf(h, id) ==
  IF h[id].kind = "View" THEN {h[id].elems[k] : k \in DOMAIN h[id].elems} ELSE {}

BinaryOps == {"matMultN", "matAddN", "matSubtractN"}

\* C3: an operation on two matrices of different dimensions reports an error
\* to its caller; it never returns a result computed from part of an operand.
C3_DimensionMismatchReported ==
  (/\ lastOp.op \in BinaryOps
   /\ Length(heap[lastOp.a].elems) # Length(heap[lastOp.b].elems))
    => lastOp.threw

\* C6: an operation leaves every array that existed before it as it was
\* (so its inputs and every matrix returned earlier keep their contents), and
\* the matrix it returns is made of arrays allocated by this call, whose
\* contents live in no cell of linear memory that an earlier result covers.
C6_InputsUntouchedResultsFresh ==
  [][opCount' # opCount =>
       /\ \A id \in 1..Len(heap) :
            /\ heap'[id] = heap[id]
            /\ id \in TypedArraysOf(heap) =>
                 TypedContents(heap', wmem', id) = TypedContents(heap, wmem, id)
       /\ ~lastOp'.threw =>
            /\ \A id \in StorageOf(heap', lastOp'.result) : id > Len(heap)
            /\ \A id \in 1..Len(heap) :
                 CellsOf(heap', lastOp'.result) \cap CellsOf(heap, id) = {}]_vars

\* a second kernel result has been returned while the first one and the
\* kernel's input are still held
C6_Witness ==
  /\ lastOp.op = "matrix_logm"
  /\ ~lastOp.threw
  /\ Cardinality(TypedArraysOf(heap)) >= 3
  /\ \E id \in MatricesOf(heap) : Length(heap[id].elems) >= 2

(***************************************************************************)
(* Matrix-logarithm calls, one after another.                              *)
(***************************************************************************)
InitLog ==
  /\ LogIdle
  /\ FlatIdle
  /\ WasmIdle
  /\ OpsIdle
  /\ GeoIdle
  /\ AppIdle

\* the steps of a call that has begun
LogStep ==
  \/ LogUnitaryCheck
  \/ LogUnitaryEig
  \/ LogUnitaryInverse
  \/ MatrixLogNTerm
  \/ MatrixLogNReturn
  \/ KernelCheck
  \/ KernelSqrtStep
  \/ KernelTaylor
  \/ KernelSqrtFailed
  \/ KernelSchurStep
  \/ KernelSchurLog
  \/ KernelSchurFailed

NextLog ==
  \/ LogUnitaryCall
  \/ MatrixLogNCall
  \/ KernelLogCall
  \/ LogUnitaryCheck
  \/ LogUnitaryEig
  \/ LogUnitaryInverse
  \/ MatrixLogNTerm
  \/ MatrixLogNReturn
  \/ KernelCheck
  \/ KernelSqrtStep
  \/ KernelTaylor
  \/ KernelSqrtFailed
  \/ KernelSchurStep
  \/ KernelSchurLog
  \/ KernelSchurFailed
  \/ LogReturn

SpecLog == InitLog /\ [][NextLog]_vars

\* a call that has begun runs on: JavaScript and the kernel run to completion
SpecLogFair == SpecLog /\ WF_vars(LogStep)

Methods == {"scaling", "schur"}
Range(f) == {f[x] : x \in DOMAIN f}

\* C1: a logarithm call whose computation failed (a method did not converge,
\* the decomposition broke down) ends with an error, unless the matrix it
\* returns was computed by a fallback method that did not fail.
C1_FailedLogNeverReturnsMatrix ==
  (logPc = "done" /\ logFailed # {})
    => \/ logOutcome.kind = "throw" /\ logOutcome.error # "none"
       \/ logOutcome.kind = "return" /\ logOutcome.via \in (Methods \ logFailed)

\* C2: the kernel starts with the method of the function called; a second
\* method is started only after the first has failed, it is the alternate
\* one, and no third attempt is made; when both have failed the call ends
\* with a numerical-failure error, and only then.
C2_FallbackTriedExactlyOnce ==
  logImpl \in KernelImpls =>
    /\ Len(logTried) <= 2
    /\ Len(logTried) >= 1 => logTried[1] = FirstMethod(logImpl)
    /\ Len(logTried) = 2 =>
         /\ logTried[1] \in logFailed
         /\ logTried[2] = Alternate(logTried[1])
    /\ logFailed \subseteq Range(logTried)
    /\ (Len(logTried) = 1 /\ logPc # "idle") => logFailed = {}
    /\ logPc = "done" =>
         (logFailed = Methods <=>
            logOutcome = LogOutcome("throw", NumericalFailure, "none"))

\* both methods have failed, scaling-and-squaring first
C2_Witness ==
  /\ logImpl = "matrix_logm"
  /\ logPc = "done"
  /\ logTried = <<"scaling", "schur">>
  /\ logFailed = Methods
  /\ logOutcome.kind = "throw"

\* the loops of a call stay within their fixed numbers of iterations
IterationsBounded ==
  /\ logCount.sqrt <= MaxSqrtIter
  /\ logCount.schur <= MaxSchurIter
  /\ logCount.eig <= 1
  /\ logCount.series <= Terms
  /\ logImpl = "matrixLogN" => logCount.series <= Terms - 1
  /\ (logImpl = "matrixLogN" /\ logPc = "done") => logCount.series = Terms - 1

C11_SeriesOnlyBelowThreshold ==
  (logU \in LogRotations /\ (logPc = "series" \/ logCount.series > 0))
    => IF logImpl = "matrixLogN" THEN BelowThreshold(logU)
       ELSE logK >= logNeed.sqrt

InitGeo ==
  /\ GeoIdle
  /\ AppIdle
  /\ FlatIdle
  /\ WasmIdle
  /\ OpsIdle
  /\ LogIdle

NextGeo ==
  \/ CallGeodesicDistanceSO
  \/ CallGeodesicDistance
  \/ CallGeodesicInterp
  \/ CallDGeodesicAtZero
  \/ CallExpOfLog
  \/ CallLogOfExp
  \/ GeoReturn

SpecGeo == InitGeo /\ [][NextGeo]_vars

DistanceOps == {"geodesicDistanceSO", "geodesicDistance"}

\* C13: the distance of a rotation matrix to itself is below 1e-10 (here:
\* it is exactly zero, the arithmetic on these rotations being exact).
C13_DistanceToItselfIsZero ==
  (geoCall.op \in DistanceOps /\ geoCall.a = geoCall.b) => geoCall.out = WideZero

\* the distance of a quarter turn in three dimensions to itself was computed
C13_Witness ==
  /\ geoCall.op = "geodesicDistanceSO"
  /\ geoCall.a = geoCall.b
  /\ Length(geoCall.a) = 3
  /\ geoCall.a # identityNxN(3)

\* C14: the distance from A to B and the distance from B to A differ by less
\* than 1e-8 (here: they are equal, the arithmetic on these rotations being
\* exact), with the series logarithm and with the eigenvalue logarithm.
C14_DistanceIsSymmetric ==
  /\ geoCall.op = "geodesicDistanceSO"
       => geoCall.out = geodesicDistanceSO(geoCall.b, geoCall.a)
  /\ geoCall.op = "geodesicDistance"
       => geoCall.out = geodesicDistanceValue(geoCall.b, geoCall.a)

\* a distance between two different rotations of space, neither the inverse
\* of the other, was computed and is not zero
C14_Witness ==
  /\ geoCall.op = "geodesicDistanceSO"
  /\ Length(geoCall.a) = 3
  /\ geoCall.a # geoCall.b
  /\ geoCall.a # TransposeValue(geoCall.b)
  /\ MatMultValue(geoCall.a, geoCall.b) # MatMultValue(geoCall.b, geoCall.a)
  /\ geoCall.out # WideZero

C17_DerivativeAtTargetIsZero ==
  (geoCall.op = "dGeodesicAtZero" /\ geoCall.a = geoCall.b)
    => geoCall.out = ZeroQuotient

\* the derivative at a rotation of space other than the identity, with
\* itself as the target and a generator that is not zero, was computed
C17_Witness ==
  /\ geoCall.op = "dGeodesicAtZero"
  /\ geoCall.a = geoCall.b
  /\ Length(geoCall.a) = 3
  /\ geoCall.a # identityNxN(3)
  /\ geoCall.k # ZeroValue(3)
  /\ geoCall.out = ZeroQuotient

\* C18: exp and log are inverse to each other on rotations: exp(log(M)) is M
\* for a rotation M, and log(exp(K)) is K for a small skew-symmetric K.  M
\* has determinant 1, so exp(log(M)) must have it; the logarithm of
\* exp(h K) must be h K (in numerators over SeriesLcm).
C18_ExpAndLogAreInverse ==
  /\ geoCall.op = "matrixExpN(matrixLogN)"
       => /\ geoCall.out.det1
          /\ geoCall.out.kind = "matrix" => geoCall.out.value = geoCall.a
  /\ geoCall.op = "matrixLogN(matrixExpN)"
       => geoCall.out = Dual(ZeroValue(Length(geoCall.k)),
                             MatScaleValue(geoCall.k, SeriesLcm))

\* a call of initWasm has settled: its promise is resolved
Resolves(c, value) == initPc[c] # value /\ initPc'[c] = value

\* C19 (as stated): initWasm resolves to true exactly when the module is
\* initialized at the time it returns, and a call that resolves to false
\* leaves the module marked unavailable.
C19_TrueExactlyWhenInitialized ==
  [][\A c \in InitCalls :
       /\ Resolves(c, "resolvedTrue") => wasmInitialized'
       /\ Resolves(c, "resolvedFalse") => ~wasmInitialized']_vars

\* C19 (amended): initWasm never rejects; a call resolves to true only with
\* the module initialized; a call resolves to false when its own import or
\* load fails, and leaves the module state as it was; and a call started once
\* the module is initialized resolves to true at once, without importing or
\* loading anything.
C19_InitWasmResolves ==
  [][\A c \in InitCalls :
       /\ initPc'[c] # "rejected"
       /\ Resolves(c, "resolvedTrue") => wasmInitialized'
       /\ Resolves(c, "resolvedFalse")
            => /\ initPc[c] \in {"importing", "fetching"}
               /\ UNCHANGED moduleState
       /\ (initPc[c] = "idle" /\ initPc'[c] # "idle" /\ wasmInitialized)
            => /\ initPc'[c] = "resolvedTrue"
               /\ UNCHANGED moduleState]_vars

\* a call has resolved to false, its load having failed, while the module is
\* initialized by another call that resolved to true
C19_Witness ==
  /\ wasmInitialized
  /\ \E c \in InitCalls : initPc[c] = "resolvedFalse"
  /\ \E c \in InitCalls : initPc[c] = "resolvedTrue"

WasmOps == {"geodesicDistanceWasm", "geodesicInterpWasm", "matrixLogmWasm", "matrixExpmWasm"}

\* C20: the four WASM wrappers throw the 'WASM module not initialized' error
\* whenever they are called before an initWasm call has succeeded (failed
\* calls included), without a call into the module; the module counts as
\* initialized only from the step at which an initWasm call resolves to true.
C20_WrappersThrowBeforeInit ==
  [][/\ (lastCall' # lastCall /\ lastCall'.op \in WasmOps /\ ~wasmInitialized)
          => /\ lastCall'.outcome = Throw(NotInitializedError)
             /\ lastCall'.outcome.via = "none"
             /\ UNCHANGED moduleState
     /\ (~wasmInitialized /\ wasmInitialized')
          => \E c \in InitCalls : Resolves(c, "resolvedTrue")]_vars

\* matrixExpmWasm has thrown the error with the glue already loaded by a
\* call still in flight and another initWasm call having failed
C20_Witness ==
  /\ lastCall.op = "matrixExpmWasm"
  /\ ~lastCall.init
  /\ lastCall.outcome = Throw(NotInitializedError)
  /\ ~wasmInitialized
  /\ glueWasm = "exports"
  /\ \E c \in InitCalls : initPc[c] = "resolvedFalse"

(***************************************************************************)
(* The challenge specification: a RotationChallenge object after its       *)
(* constructor, under the calls of the page and of its game loop.          *)
(***************************************************************************)
InitChal ==
  /\ FlatIdle
  /\ WasmIdle
  /\ OpsIdle
  /\ LogIdle
  /\ GeoIdle
  /\ LoopIdle
  /\ GameIdle
  /\ playerOrientation = 0
  /\ targetRotation \in TargetAngles
  /\ currentDistance = Infinity
  /\ bestDistance = Infinity
  /\ hasWon = FALSE
  /\ autoLockEnabled = FALSE
  /\ autoLockThreshold = DefaultAutoLockThreshold
  /\ hasTriggeredAutoLock = FALSE
  /\ lastDistanceAboveReset = Infinity
  /\ isAnimatingHalfway = FALSE
  /\ halfwayProgress = 0
  /\ halfwayStartOrientation = NoOrientation
  /\ halfwayTargetOrientation = NoOrientation
  /\ chalEvent = ChalEvent("constructor", FALSE, FALSE)
  /\ animElapsed = 0
  /\ cycleOpen = [started |-> FALSE, rose |-> FALSE, set |-> FALSE]
  /\ onWinCalls = 0

NextChal ==
  \/ \E dt \in 0..MaxFrameTime, held \in {-1, 0, 1} : Update(dt, held)
  \/ NewChallenge
  \/ HalfTheDistance
  \/ \E enabled \in BOOLEAN : SetAutoLockEnabled(enabled)
  \/ \E threshold \in Thresholds : SetAutoLockThreshold(threshold)

SpecChal == InitChal /\ [][NextChal]_vars

ChalTypeOK ==
  /\ playerOrientation \in 0..MaxAngle
  /\ targetRotation \in TargetAngles
  /\ currentDistance \in 0..Infinity
  /\ bestDistance \in 0..Infinity
  /\ halfwayProgress \in 0..(halfwayDuration - 1)
  /\ isAnimatingHalfway => halfwayTargetOrientation \in 0..MaxAngle

\* C21 (as stated): an update starts auto-lock only if auto-lock has not
\* started before or the distance has risen above 1.0 since it last started.
C21_Original ==
  [][chalEvent'.autoLock =>
       \/ ~cycleOpen.started
       \/ cycleOpen.rose
       \/ currentDistance' > ResetDistance]_vars

\* C21: with auto-lock enabled, an update starts auto-lock only at a distance
\* below the auto-lock threshold, and, once auto-lock has started, not again
\* until the distance has risen above 1.0 or setAutoLockEnabled has been
\* called.
C21_OncePerCycleOrAfterToggle ==
  [][chalEvent'.autoLock =>
       /\ autoLockEnabled
       /\ currentDistance' < autoLockThreshold
       /\ \/ ~cycleOpen.started
          \/ cycleOpen.rose
          \/ cycleOpen.set
          \/ currentDistance' > ResetDistance]_vars

\* an update has found the distance below the threshold with auto-lock
\* enabled and no animation, and has not started auto-lock a second time
C21_Witness ==
  /\ chalEvent.op = "update"
  /\ ~chalEvent.autoLock
  /\ autoLockEnabled
  /\ ~isAnimatingHalfway
  /\ hasTriggeredAutoLock
  /\ cycleOpen.started
  /\ currentDistance < autoLockThreshold
  /\ currentDistance > winThreshold

\* C22: while an animation is in progress, a halfTheDistance request changes
\* neither the animation nor the player orientation, and an update, with or
\* without a held rotation control, leaves the start and the target of the
\* animation alone, advances its progress by the time step only, and puts
\* the player on the animation's path: at the eased interpolation between
\* start and target while it runs, at the target when it ends.
C22_AnimationNotDisturbed ==
  [][isAnimatingHalfway =>
       /\ chalEvent'.op = "halfTheDistance" =>
            UNCHANGED <<animVars, playerOrientation>>
       /\ (chalEvent'.op = "update" /\ isAnimatingHalfway' /\ ~chalEvent'.autoLock) =>
            /\ UNCHANGED <<halfwayStartOrientation, halfwayTargetOrientation>>
            /\ halfwayProgress' - halfwayProgress \in 0..MaxFrameTime
            /\ playerOrientation' =
                 interpRotationSO(halfwayStartOrientation, halfwayTargetOrientation,
                                  easeInOutCubic(halfwayProgress'), EaseDen)
       /\ (chalEvent'.op = "update" /\ (~isAnimatingHalfway' \/ chalEvent'.autoLock)) =>
            /\ halfwayProgress + MaxFrameTime >= halfwayDuration
            /\ playerOrientation' = halfwayTargetOrientation]_vars

\* an update made with a rotation control held has advanced an animation
\* that a halfTheDistance request had not restarted
C22_Witness ==
  /\ isAnimatingHalfway
  /\ chalEvent.op = "update"
  /\ chalEvent.held
  /\ halfwayProgress > 1
  /\ playerOrientation # halfwayStartOrientation
  /\ playerOrientation # halfwayTargetOrientation

\* a halfTheDistance request has arrived in the middle of an animation
C22_RequestWitness ==
  /\ isAnimatingHalfway
  /\ chalEvent.op = "halfTheDistance"
  /\ halfwayProgress > 0

C24_OnWinAtMostOnce ==
  [][/\ onWinCalls' <= 1
     /\ hasWon' <=> (onWinCalls' = 1)
     /\ chalEvent'.onWin <=>
          (chalEvent'.op = "update" /\ ~hasWon /\ currentDistance' <= winThreshold)
     /\ chalEvent'.onWin => hasWon'
     /\ (hasWon /\ ~hasWon') => chalEvent'.op = "newChallenge"]_vars

\* an update made by hand after the win, with the score at the threshold,
\* has not called onWin a second time
C24_Witness ==
  /\ chalEvent.op = "update"
  /\ chalEvent.held
  /\ ~chalEvent.onWin
  /\ hasWon
  /\ onWinCalls = 1
  /\ currentDistance <= winThreshold
  /\ targetRotation = MaxAngle
  /\ ~cycleOpen.started
  /\ halfwayTargetOrientation = NoOrientation

\* C25: after every update the best score is the smaller of the best score
\* before it and the score it computed, hence the minimum of the scores
\* computed since the last newChallenge, which sets it to Infinity: it never
\* exceeds the current score and only newChallenge increases it.
C25_BestIsMinimum ==
  [][/\ chalEvent'.op = "update" =>
          /\ bestDistance' <= currentDistance'
          /\ bestDistance' =
               IF currentDistance' < bestDistance THEN currentDistance' ELSE bestDistance
     /\ chalEvent'.op = "newChallenge" =>
          (bestDistance' = Infinity /\ currentDistance' = Infinity)
     /\ chalEvent'.op # "newChallenge" => bestDistance' <= bestDistance
     /\ bestDistance' <= currentDistance']_vars

\* an update has computed a score above the best one of the challenge
C25_Witness ==
  /\ chalEvent.op = "update"
  /\ bestDistance < currentDistance
  /\ bestDistance > 0
  /\ currentDistance < Infinity

\* C28: newChallenge cancels an animation in progress: the first update after
\* newChallenge, made with no rotation control held, leaves the player at the
\* identity, where newChallenge has put it.
C28_NewChallengeCancelsAnimation ==
  [][/\ chalEvent'.op = "newChallenge" => playerOrientation' = 0
     /\ (chalEvent.op = "newChallenge" /\ chalEvent'.op = "update" /\ ~chalEvent'.held)
          => playerOrientation' = 0]_vars

(***************************************************************************)
(* The page specification: init has constructed the first challenge and    *)
(* started its loop.                                                       *)
(***************************************************************************)
InitLoop ==
  /\ FlatIdle
  /\ WasmIdle
  /\ OpsIdle
  /\ LogIdle
  /\ GeoIdle
  /\ ChalIdle
  /\ GameIdle
  /\ currentDimensions \in Dimensions
  /\ challenges = <<StartedChallenge>>
  /\ loopEvent = LoopEvent("init", 1, FALSE, TRUE)

NextLoop ==
  \/ \E c \in 1..MaxChallenges : gameLoop(c)
  \/ \E newDimensions \in Dimensions : DimensionChange(newDimensions)

SpecLoop == InitLoop /\ [][NextLoop]_vars

(***************************************************************************)
(* The game specification: a Game after its constructor, with the player   *)
(* at the origin, facing forwards or backwards along the first axis.       *)
(***************************************************************************)
InitGame ==
  /\ FlatIdle
  /\ WasmIdle
  /\ OpsIdle
  /\ LogIdle
  /\ GeoIdle
  /\ ChalIdle
  /\ LoopIdle
  /\ position = <<0, 0>>
  /\ orientation \in {1, -1}
  /\ shipType = "aerilou"
  /\ isMovingForward = FALSE
  /\ playerVelocity = 0
  /\ pardonCheck = "none"

NextGame ==
  \/ \E dt \in 0..1 : GameUpdate(dt)
  \/ \E dim \in Axes : MoveAlongDimension(dim)
  \/ \E type \in ShipTypes \cup {"other"} : SetShipType(type)
  \/ \E moving \in BOOLEAN : SetMovingForward(moving)

SpecGame == InitGame /\ [][NextGame]_vars

\* the challenges whose game loop is active: running, with a frame requested
ActiveLoops ==
  {c \in 1..Len(challenges) : challenges[c].running /\ challenges[c].pending > 0}

\* C26: exactly one challenge's game loop is active at any time, that of the
\* page's current challenge, and a step never updates or renders a replaced
\* challenge nor requests an animation frame for it: its frame count stays,
\* its requested frames only run out, and it stays stopped.
C26_OneActiveLoop ==
  [][/\ ActiveLoops' = {Len(challenges')}
     /\ \A c \in 1..Len(challenges) :
          c # Len(challenges) =>
            /\ challenges'[c].frames = challenges[c].frames
            /\ challenges'[c].pending <= challenges[c].pending
            /\ ~challenges'[c].running
     /\ (loopEvent'.ran \/ loopEvent'.scheduled) => loopEvent'.id = Len(challenges')]_vars

\* the frame that a replaced challenge had requested has run and returned:
\* the challenge, which had updated before, has no frame requested any more,
\* and its successor has updated since
C26_Witness ==
  /\ Len(challenges) >= 2
  /\ loopEvent = LoopEvent("gameLoop", 1, FALSE, FALSE)
  /\ challenges[1].frames > 0
  /\ challenges[1].pending = 0
  /\ challenges[2].frames > 0

\* C27: every coordinate of the player position lies within
\* [-gridRange, gridRange] after every operation, and did so at the last
\* check of the pardon radius.
C27_PositionWithinGrid ==
  /\ InGrid(position)
  /\ pardonCheck # "outside"

====
